---- MODULE Spec2Model ----
(***************************************************************************)
(* Model of the todo application's data layer: the SQLite store as opened *)
(* by DatabaseConnection, the migration runner DatabaseMigrations, and the *)
(* services UserService, TodoListService and TodoService that run on it.   *)
(***************************************************************************)
EXTENDS Integers, Sequences, FiniteSets, TLC

(***************************************************************************)
(* Bounds of the model.                                                    *)
(***************************************************************************)
MaxLegacy == 2      \* rows of the legacy todos table in a starting database
MaxRuns == 2        \* runs of initializeDatabase in one behaviour
MaxUsers == 2       \* users rows ever inserted
MaxLists == 3       \* todo_lists rows ever inserted
MaxTodos == 2       \* todos rows ever inserted by the services
MaxTime == 1        \* seconds the clock advances

(***************************************************************************)
(* Strings.  A string is its leading whitespace count, the class of its    *)
(* content between the first and the last non-whitespace character, the    *)
(* length n of that content, and its trailing whitespace count.            *)
(***************************************************************************)
Str(lead, core, n, trail) == [lead |-> lead, core |-> core, n |-> n, trail |-> trail]

StrLen(s) == s.lead + s.n + s.trail

\* String.prototype.trim
Trim(s) == [s EXCEPT !.lead = 0, !.trail = 0]

EmptyStr == Str(0, "", 0, 0)
DefaultUsername == Str(0, "default_user", 12, 0)
DefaultListName == Str(0, "My Tasks", 8, 0)

(***************************************************************************)
(* The database.                                                           *)
(***************************************************************************)
TodosLike == {"todos", "todos_new", "todos_old"}
TableNames == TodosLike \cup {"users", "todo_lists", "migrations"}

LegacyBaseCols == {"id", "text", "completed", "created_at", "updated_at"}
MigrationsCols == {"id", "name", "executed_at"}
UsersCols == {"id", "username", "created_at"}
TodoListsCols == {"id", "name", "user_id", "created_at"}
NewTodosCols == {"id", "text", "completed", "list_id", "created_at"}

AddUsernameColumn == "add_username_column"
MigrateToMultiList == "migrate_to_multi_list_schema"

\* index name -> <<table, column list>> as the CREATE INDEX statements give it
NewSchemaIndexes ==
  << <<"idx_users_username", "users", {"username"}>>,
     <<"idx_todo_lists_user_id", "todo_lists", {"user_id"}>>,
     <<"idx_todo_lists_name_user", "todo_lists", {"name", "user_id"}>>,
     <<"idx_todos_list_id", "todos", {"list_id"}>>,
     <<"idx_todos_completed", "todos", {"completed"}>>,
     <<"idx_todos_created_at", "todos", {"created_at"}>> >>

OriginalIndexes ==
  << <<"idx_todos_completed", "todos", {"completed"}>>,
     <<"idx_todos_created_at", "todos", {"created_at"}>>,
     <<"idx_todos_username", "todos", {"username"}>>,
     <<"idx_todos_username_completed", "todos", {"username", "completed"}>> >>

IndexNames == {NewSchemaIndexes[i][1] : i \in 1..Len(NewSchemaIndexes)}
                \cup {OriginalIndexes[i][1] : i \in 1..Len(OriginalIndexes)}

\* The connection is opened with sqlite3.Database(path) and no PRAGMA
\* foreign_keys statement is ever issued on it, so SQLite keeps its default:
\* foreign key clauses are parsed and stored but not enforced.
ForeignKeysEnabled == FALSE

TodoRow(id, text, completed, created_at, username, list_id) ==
  [id |-> id, text |-> text, completed |-> completed, created_at |-> created_at,
   username |-> username, list_id |-> list_id]

UserRow(id, username, created_at) ==
  [id |-> id, username |-> username, created_at |-> created_at]

ListRow(id, name, user_id, created_at) ==
  [id |-> id, name |-> name, user_id |-> user_id, created_at |-> created_at]

\* A database: cols maps a table to its columns ({} when the table is absent),
\* seq to the last id AUTOINCREMENT handed out for it, rows maps todos,
\* todos_new and todos_old to their rows, indexes maps an index name to the
\* table it is on ("" when the index is absent).  The updated_at column is
\* kept as a column only; its values are read by no operation modelled here.
EmptyDb ==
  [cols |-> [t \in TableNames |-> {}],
   seq |-> [t \in TableNames |-> 0],
   rows |-> [t \in TodosLike |-> {}],
   users |-> {},
   todo_lists |-> {},
   migrations |-> {},
   indexes |-> [i \in IndexNames |-> ""]]

HasTable(d, t) == d.cols[t] # {}

\* rows of a set in rowid order
RECURSIVE InIdOrder(_)
InIdOrder(rows) ==
  IF rows = {} THEN <<>>
  ELSE LET r == CHOOSE x \in rows : \A y \in rows : x.id <= y.id
       IN <<r>> \o InIdOrder(rows \ {r})

(***************************************************************************)
(* SQL statements.  Each returns err ("" on success, else the SQLite       *)
(* message), the database after it and, for an INSERT, lastID.             *)
(***************************************************************************)
Ok(d, id) == [err |-> "", d |-> d, lastID |-> id]
Fail(d, msg) == [err |-> msg, d |-> d, lastID |-> 0]

\* CREATE TABLE IF NOT EXISTS t (...)
CreateTableIfNotExists(d, t, columns) ==
  IF HasTable(d, t) THEN Ok(d, 0)
  ELSE Ok([d EXCEPT !.cols[t] = columns], 0)

\* INSERT INTO migrations (name) VALUES (?)
InsertMigration(d, name) ==
  IF ~HasTable(d, "migrations") THEN Fail(d, "no such table")
  ELSE IF name \in d.migrations THEN Fail(d, "UNIQUE constraint failed")
  ELSE Ok([d EXCEPT !.migrations = @ \cup {name}], 0)

\* ALTER TABLE todos ADD COLUMN username TEXT NOT NULL DEFAULT ""
\* (a row of a table without the column already carries "" here)
AlterAddUsername(d) ==
  IF ~HasTable(d, "todos") THEN Fail(d, "no such table")
  ELSE IF "username" \in d.cols["todos"] THEN Fail(d, "duplicate column name")
  ELSE Ok([d EXCEPT !.cols["todos"] = @ \cup {"username"}], 0)

\* the insert into a users table that has no UNIQUE constraint
InsertUserUnchecked(d, username, t) ==
  IF ~HasTable(d, "users") THEN Fail(d, "no such table")
  ELSE LET id == d.seq["users"] + 1
       IN Ok([d EXCEPT !.users = @ \cup {UserRow(id, username, t)},
                       !.seq["users"] = id], id)

\* INSERT INTO users (username) VALUES (?)
InsertUser(d, username, t) ==
  IF ~HasTable(d, "users") THEN Fail(d, "no such table")
  ELSE IF \E u \in d.users : u.username = username
    THEN Fail(d, "UNIQUE constraint failed")
  ELSE LET id == d.seq["users"] + 1
       IN Ok([d EXCEPT !.users = @ \cup {UserRow(id, username, t)},
                       !.seq["users"] = id], id)

\* INSERT INTO todo_lists (name, user_id) VALUES (?, ?)
InsertList(d, name, userId, t) ==
  IF ~HasTable(d, "todo_lists") THEN Fail(d, "no such table")
  ELSE IF \E l \in d.todo_lists : l.name = name /\ l.user_id = userId
    THEN Fail(d, "UNIQUE constraint failed")
  ELSE IF ForeignKeysEnabled /\ ~\E u \in d.users : u.id = userId
    THEN Fail(d, "FOREIGN KEY constraint failed")
  ELSE LET id == d.seq["todo_lists"] + 1
       IN Ok([d EXCEPT !.todo_lists = @ \cup {ListRow(id, name, userId, t)},
                       !.seq["todo_lists"] = id], id)

CopiedTodoCompletedDropped(todo, listId, id) ==
  TodoRow(id, todo.text, FALSE, todo.created_at, EmptyStr, listId)

\* the row migrateExistingTodos inserts for one legacy row
CopiedTodo(todo, listId, id) ==
  TodoRow(id, todo.text, todo.completed, todo.created_at, EmptyStr, listId)

\* INSERT INTO <table> (...) VALUES (...), the table being in the new shape
InsertNewTodo(d, table, row) ==
  IF ~HasTable(d, table) THEN Fail(d, "no such table")
  ELSE IF "list_id" \notin d.cols[table] THEN Fail(d, "no such column")
  ELSE IF ForeignKeysEnabled /\ ~\E l \in d.todo_lists : l.id = row.list_id
    THEN Fail(d, "FOREIGN KEY constraint failed")
  ELSE LET id == d.seq[table] + 1
       IN Ok([d EXCEPT !.rows[table] = @ \cup {[row EXCEPT !.id = id]},
                       !.seq[table] = id], id)

\* ALTER TABLE from RENAME TO to: the rows, the AUTOINCREMENT sequence and
\* the indexes of the table go with it
RenameTable(d, from, to) ==
  IF ~HasTable(d, from) THEN Fail(d, "no such table")
  ELSE IF HasTable(d, to) THEN Fail(d, "there is already another table")
  ELSE Ok([d EXCEPT !.cols[from] = {}, !.cols[to] = d.cols[from],
                    !.seq[from] = 0, !.seq[to] = d.seq[from],
                    !.rows[from] = {}, !.rows[to] = d.rows[from],
                    !.indexes = [i \in IndexNames |->
                                   IF d.indexes[i] = from THEN to ELSE d.indexes[i]]], 0)

\* CREATE INDEX IF NOT EXISTS name ON table(columns): nothing happens when an
\* index of that name exists, whatever table it is on
CreateIndexIfNotExists(d, ix) ==
  IF d.indexes[ix[1]] # "" THEN Ok(d, 0)
  ELSE IF ~HasTable(d, ix[2]) THEN Fail(d, "no such table")
  ELSE IF ~(ix[3] \subseteq d.cols[ix[2]]) THEN Fail(d, "no such column")
  ELSE Ok([d EXCEPT !.indexes[ix[1]] = ix[2]], 0)

RECURSIVE CreateIndexes(_, _, _)
CreateIndexes(d, list, i) ==
  IF i > Len(list) THEN Ok(d, 0)
  ELSE LET r == CreateIndexIfNotExists(d, list[i])
       IN IF r.err # "" THEN r ELSE CreateIndexes(r.d, list, i + 1)

\* SELECT name FROM migrations WHERE name = ?
LedgerHas(d, name) == name \in d.migrations

\* the "already executed, skipping" tests of the two migrations
AddUsernameNeverSkipped(d) == FALSE

AddUsernameAlreadyExecuted(d) == LedgerHas(d, AddUsernameColumn)

MultiListNeverExecuted(d) == FALSE

MultiListAlreadyExecuted(d) == LedgerHas(d, MigrateToMultiList)

\* a SELECT on table t that finds the rows found: it fails when t is absent
Select(d, t, found) ==
  IF HasTable(d, t) THEN [err |-> "", rows |-> found]
  ELSE [err |-> "no such table", rows |-> {}]

\* SELECT ... FROM users WHERE username = ?
SelectUserByUsername(d, username) ==
  Select(d, "users", {u \in d.users : u.username = username})

\* SELECT ... FROM users WHERE id = ?
SelectUserById(d, id) == Select(d, "users", {u \in d.users : u.id = id})

\* the lookup that takes any list of the user for the one named
SelectListByUserAnyName(d, userId, name) ==
  Select(d, "todo_lists", {l \in d.todo_lists : l.user_id = userId})

\* SELECT ... FROM todo_lists WHERE user_id = ? AND name = ?
SelectListByUserAndName(d, userId, name) ==
  Select(d, "todo_lists", {l \in d.todo_lists : l.user_id = userId /\ l.name = name})

\* SELECT ... FROM todo_lists WHERE id = ?
SelectListById(d, id) == Select(d, "todo_lists", {l \in d.todo_lists : l.id = id})

\* the list looked up by its id alone
SelectListByIdAnyUser(d, id, userId) ==
  Select(d, "todo_lists", {l \in d.todo_lists : l.id = id})

\* SELECT id FROM todo_lists WHERE id = ? AND user_id = ?
SelectListByIdAndUser(d, id, userId) ==
  Select(d, "todo_lists", {l \in d.todo_lists : l.id = id /\ l.user_id = userId})

\* the conflict query without its id != ? condition
SelectConflictingListOrSelf(d, userId, name, id) ==
  Select(d, "todo_lists", {l \in d.todo_lists : l.user_id = userId /\ l.name = name})

\* SELECT id FROM todo_lists WHERE user_id = ? AND name = ? AND id != ?
SelectConflictingList(d, userId, name, id) ==
  Select(d, "todo_lists",
         {l \in d.todo_lists : l.user_id = userId /\ l.name = name /\ l.id # id})

\* SELECT COUNT(*) as count FROM todo_lists WHERE user_id = ?
CountListsOfUser(d, userId) ==
  Cardinality({l \in d.todo_lists : l.user_id = userId})

\* UPDATE todo_lists SET name = ? WHERE id = ?
UpdateListNameStmt(d, name, id) ==
  IF ~HasTable(d, "todo_lists") THEN Fail(d, "no such table")
  ELSE IF ~\E l \in d.todo_lists : l.id = id THEN Ok(d, 0)
  ELSE LET old == CHOOSE l \in d.todo_lists : l.id = id
       IN IF \E l \in d.todo_lists :
               l.id # id /\ l.name = name /\ l.user_id = old.user_id
            THEN Fail(d, "UNIQUE constraint failed")
            ELSE Ok([d EXCEPT !.todo_lists =
                       (@ \ {old}) \cup {[old EXCEPT !.name = name]}], 1)

\* DELETE FROM todo_lists WHERE id = ?; lastID carries the number of changes.
\* The todos of the list go with it only when foreign keys are enforced.
DeleteListStmt(d, id) ==
  IF ~HasTable(d, "todo_lists") THEN Fail(d, "no such table")
  ELSE IF ~\E l \in d.todo_lists : l.id = id THEN Ok(d, 0)
  ELSE LET d1 == [d EXCEPT !.todo_lists = {l \in @ : l.id # id}]
       IN IF ForeignKeysEnabled
            THEN Ok([d1 EXCEPT !.rows["todos"] = {r \in @ : r.list_id # id}], 1)
            ELSE Ok(d1, 1)

\* the todos table is in the legacy shape with the username column
LegacyQueryable(d) == HasTable(d, "todos") /\ "username" \in d.cols["todos"]

\* the todos table is in the normalized shape
NewQueryable(d) == HasTable(d, "todos") /\ "list_id" \in d.cols["todos"]

\* INSERT INTO todos (text, completed, username) VALUES (?, 0, ?)
InsertLegacyTodo(d, text, username, t) ==
  IF ~LegacyQueryable(d) THEN Fail(d, "no such column")
  ELSE IF StrLen(Trim(text)) = 0 THEN Fail(d, "CHECK constraint failed")
  ELSE LET id == d.seq["todos"] + 1
       IN Ok([d EXCEPT !.rows["todos"] = @ \cup {TodoRow(id, text, FALSE, t, username, 0)},
                       !.seq["todos"] = id], id)

\* the user condition dropped from the lookup of a todo's list
InListOfAnyUser(d, listId, userId) == \E l \in d.todo_lists : l.id = listId

\* todo_lists has the row (listId, userId): the join on tl.user_id = ? and
\* the subquery SELECT id FROM todo_lists WHERE user_id = ?
InListOfUser(d, listId, userId) ==
  \E l \in d.todo_lists : l.id = listId /\ l.user_id = userId

\* SELECT ... FROM todos t JOIN todo_lists tl ON t.list_id = tl.id
\* WHERE t.id = ? AND tl.user_id = ?
SelectTodoOfNoUser(d, id, userId) == [err |-> "", rows |-> {}]

SelectTodoOfUser(d, id, userId) ==
  IF ~NewQueryable(d) THEN [err |-> "no such column", rows |-> {}]
  ELSE Select(d, "todo_lists",
              {r \in d.rows["todos"] : r.id = id /\ InListOfUser(d, r.list_id, userId)})

\* SELECT ... FROM todos WHERE id = ? AND username = ?
SelectLegacyTodo(d, id, username) ==
  IF ~LegacyQueryable(d) THEN [err |-> "no such column", rows |-> {}]
  ELSE [err |-> "", rows |-> {r \in d.rows["todos"] : r.id = id /\ r.username = username}]

\* SELECT ... FROM todos WHERE id = ? AND list_id = ?
SelectTodoInList(d, id, listId) ==
  IF ~NewQueryable(d) THEN [err |-> "no such column", rows |-> {}]
  ELSE [err |-> "", rows |-> {r \in d.rows["todos"] : r.id = id /\ r.list_id = listId}]

\* SELECT ... FROM todos WHERE list_id = ?
SelectTodosOfEveryList(d, listId) ==
  IF ~NewQueryable(d) THEN [err |-> "no such column", rows |-> {}]
  ELSE [err |-> "", rows |-> d.rows["todos"]]

SelectTodosOfList(d, listId) ==
  IF ~NewQueryable(d) THEN [err |-> "no such column", rows |-> {}]
  ELSE [err |-> "", rows |-> {r \in d.rows["todos"] : r.list_id = listId}]

\* SELECT ... FROM todos WHERE username = ?
SelectTodosOfUsername(d, username) ==
  IF ~LegacyQueryable(d) THEN [err |-> "no such column", rows |-> {}]
  ELSE [err |-> "", rows |-> {r \in d.rows["todos"] : r.username = username}]

\* UPDATE or DELETE on the rows hit of todos: put gives the row left in place
\* of a hit row ({} for a DELETE); lastID carries the number of changes
ChangeTodos(d, hit, put(_)) ==
  Ok([d EXCEPT !.rows["todos"] = (@ \ hit) \cup UNION {put(r) : r \in hit}],
     Cardinality(hit))

\* the rows of todos with this id in a list of this user
TodosOfUserWithId(d, id, userId) ==
  {r \in d.rows["todos"] : r.id = id /\ InListOfUser(d, r.list_id, userId)}

\* UPDATE todos SET completed = ? WHERE id = ? AND list_id IN
\* (SELECT id FROM todo_lists WHERE user_id = ?)
UpdateCompletedOfUser(d, completed, id, userId) ==
  IF ~NewQueryable(d) THEN Fail(d, "no such column")
  ELSE LET set(r) == {[r EXCEPT !.completed = completed]}
       IN ChangeTodos(d, TodosOfUserWithId(d, id, userId), set)

\* UPDATE todos SET completed = ? WHERE id = ? AND username = ?
UpdateCompletedLegacy(d, completed, id, username) ==
  IF ~LegacyQueryable(d) THEN Fail(d, "no such column")
  ELSE LET set(r) == {[r EXCEPT !.completed = completed]}
       IN ChangeTodos(d, {r \in d.rows["todos"] : r.id = id /\ r.username = username}, set)

\* DELETE FROM todos WHERE id = ? AND list_id IN
\* (SELECT id FROM todo_lists WHERE user_id = ?)
DeleteTodoOfUser(d, id, userId) ==
  IF ~NewQueryable(d) THEN Fail(d, "no such column")
  ELSE LET gone(r) == {}
       IN ChangeTodos(d, TodosOfUserWithId(d, id, userId), gone)

\* DELETE FROM todos WHERE id = ? AND username = ?
DeleteTodoLegacy(d, id, username) ==
  IF ~LegacyQueryable(d) THEN Fail(d, "no such column")
  ELSE LET gone(r) == {}
       IN ChangeTodos(d, {r \in d.rows["todos"] : r.id = id /\ r.username = username}, gone)

\* the update without its WHERE id = ? condition
UpdateEveryTodoList(d, listId, id) ==
  IF ~NewQueryable(d) THEN Fail(d, "no such column")
  ELSE LET set(r) == {[r EXCEPT !.list_id = listId]}
       IN ChangeTodos(d, d.rows["todos"], set)

\* UPDATE todos SET list_id = ? WHERE id = ?
UpdateTodoList(d, listId, id) ==
  IF ~NewQueryable(d) THEN Fail(d, "no such column")
  ELSE IF ForeignKeysEnabled /\ (\E r \in d.rows["todos"] : r.id = id)
            /\ ~\E l \in d.todo_lists : l.id = listId
    THEN Fail(d, "FOREIGN KEY constraint failed")
  ELSE LET set(r) == {[r EXCEPT !.list_id = listId]}
       IN ChangeTodos(d, {r \in d.rows["todos"] : r.id = id}, set)

\* ORDER BY completed ASC, created_at DESC; rows equal in both come in rowid
\* order, as the scan delivers them
Before(a, b) ==
  \/ (~a.completed /\ b.completed)
  \/ (a.completed = b.completed /\ a.created_at > b.created_at)
  \/ (a.completed = b.completed /\ a.created_at = b.created_at /\ a.id < b.id)

RECURSIVE OrderTodos(_)
OrderTodos(rows) ==
  IF rows = {} THEN <<>>
  ELSE LET r == CHOOSE x \in rows : \A y \in rows \ {x} : Before(x, y)
       IN <<r>> \o OrderTodos(rows \ {r})

(***************************************************************************)
(* DatabaseMigrations.initializeDatabase, one SQL statement per step.      *)
(* A run is [pc, existing, userId, listId, i, err]: its position, the rows *)
(* read by SELECT * FROM todos, the default user and list ids, the loop    *)
(* index of migrateExistingTodos and, once failed, the error's wrappers.   *)
(***************************************************************************)
NewRun ==
  [pc |-> "createTodosTable", existing |-> <<>>, userId |-> 0, listId |-> 0,
   i |-> 1, err |-> <<>>]

At(m, pc) == [m EXCEPT !.pc = pc]

\* the catch blocks of runMigrations and initializeDatabase wrap the message
FailedRun(m, inMigrations, msg) ==
  [m EXCEPT !.pc = "failed",
            !.err = IF inMigrations
                      THEN <<"Failed to initialize database", "Migration failed", msg>>
                      ELSE <<"Failed to initialize database", msg>>]

\* one statement r, then pc, or the failure of the run
Then(m, r, pc, inMigrations) ==
  IF r.err # "" THEN [d |-> r.d, m |-> FailedRun(m, inMigrations, r.err)]
  ELSE [d |-> r.d, m |-> At(m, pc)]

CreateTodosTable(d, m) ==
  Then(m, CreateTableIfNotExists(d, "todos", LegacyBaseCols), "createMigrationsTable", FALSE)

CreateMigrationsTable(d, m) ==
  Then(m, CreateTableIfNotExists(d, "migrations", MigrationsCols), "au_check", TRUE)

AddUsernameColumnMigration(d, m) ==
  CASE m.pc = "au_check" ->
         [d |-> d, m |-> At(m, IF AddUsernameAlreadyExecuted(d)
                                 THEN "ml_check" ELSE "au_pragma")]
    [] m.pc = "au_pragma" ->
         \* PRAGMA table_info(todos)
         [d |-> d, m |-> At(m, IF "username" \in d.cols["todos"]
                                 THEN "au_record" ELSE "au_alter")]
    [] m.pc = "au_alter" -> Then(m, AlterAddUsername(d), "au_record", TRUE)
    [] m.pc = "au_record" ->
         Then(m, InsertMigration(d, AddUsernameColumn), "ml_check", TRUE)

CreateDefaultUser(d, m, t) ==
  CASE m.pc = "du_select" ->
         IF \E u \in d.users : u.username = DefaultUsername
           THEN [d |-> d,
                 m |-> [m EXCEPT !.pc = "dl_select",
                          !.userId = (CHOOSE u \in d.users : u.username = DefaultUsername).id]]
           ELSE [d |-> d, m |-> At(m, "du_insert")]
    [] m.pc = "du_insert" ->
         LET r == InsertUser(d, DefaultUsername, t)
         IN Then([m EXCEPT !.userId = r.lastID], r, "dl_select", TRUE)

MigCreateDefaultList(d, m, t) ==
  CASE m.pc = "dl_select" ->
         IF \E l \in d.todo_lists : l.user_id = m.userId /\ l.name = DefaultListName
           THEN [d |-> d,
                 m |-> [m EXCEPT !.pc = "copy",
                          !.listId = (CHOOSE l \in d.todo_lists :
                                        l.user_id = m.userId /\ l.name = DefaultListName).id]]
           ELSE [d |-> d, m |-> At(m, "dl_insert")]
    [] m.pc = "dl_insert" ->
         LET r == InsertList(d, DefaultListName, m.userId, t)
         IN Then([m EXCEPT !.listId = r.lastID], r, "copy", TRUE)

\* one iteration of the loop of migrateExistingTodos
MigrateExistingTodos(d, m) ==
  IF m.i > Len(m.existing) THEN [d |-> d, m |-> At(m, "rename_old")]
  ELSE Then([m EXCEPT !.i = @ + 1],
            InsertNewTodo(d, "todos_new", CopiedTodo(m.existing[m.i], m.listId, 0)),
            "copy", TRUE)

MigrateToMultiListSchema(d, m, t) ==
  CASE m.pc = "ml_check" ->
         [d |-> d, m |-> At(m, IF MultiListAlreadyExecuted(d)
                                 THEN "createIndexes" ELSE "ml_users")]
    [] m.pc = "ml_users" ->
         Then(m, CreateTableIfNotExists(d, "users", UsersCols), "ml_lists", TRUE)
    [] m.pc = "ml_lists" ->
         Then(m, CreateTableIfNotExists(d, "todo_lists", TodoListsCols), "ml_new", TRUE)
    [] m.pc = "ml_new" ->
         Then(m, CreateTableIfNotExists(d, "todos_new", NewTodosCols), "ml_select", TRUE)
    [] m.pc = "ml_select" ->
         \* SELECT * FROM todos
         IF ~HasTable(d, "todos")
           THEN [d |-> d, m |-> FailedRun(m, TRUE, "no such table")]
           ELSE LET rows == InIdOrder(d.rows["todos"])
                IN [d |-> d,
                    m |-> [m EXCEPT !.existing = rows, !.i = 1,
                             !.pc = IF Len(rows) > 0 THEN "du_select" ELSE "rename_old"]]
    [] m.pc \in {"du_select", "du_insert"} -> CreateDefaultUser(d, m, t)
    [] m.pc \in {"dl_select", "dl_insert"} -> MigCreateDefaultList(d, m, t)
    [] m.pc = "copy" -> MigrateExistingTodos(d, m)
    [] m.pc = "rename_old" -> Then(m, RenameTable(d, "todos", "todos_old"), "rename_new", TRUE)
    [] m.pc = "rename_new" ->
         Then([m EXCEPT !.i = 1], RenameTable(d, "todos_new", "todos"), "ml_indexes", TRUE)
    [] m.pc = "ml_indexes" ->
         \* createNewSchemaIndexes, one CREATE INDEX per step
         IF m.i > Len(NewSchemaIndexes) THEN [d |-> d, m |-> At(m, "ml_record")]
         ELSE Then([m EXCEPT !.i = @ + 1],
                   CreateIndexIfNotExists(d, NewSchemaIndexes[m.i]), "ml_indexes", TRUE)
    [] m.pc = "ml_record" ->
         Then(m, InsertMigration(d, MigrateToMultiList), "createIndexes", TRUE)

\* createIndexes: the original-schema indexes, unless the ledger holds the
\* multi-list migration
MigCreateIndexes(d, m) ==
  IF LedgerHas(d, MigrateToMultiList) THEN [d |-> d, m |-> At(m, "done")]
  ELSE Then(m, CreateIndexes(d, OriginalIndexes, 1), "done", FALSE)

AuPcs == {"au_check", "au_pragma", "au_alter", "au_record"}
MlPcs == {"ml_check", "ml_users", "ml_lists", "ml_new", "ml_select", "du_select",
          "du_insert", "dl_select", "dl_insert", "copy", "rename_old", "rename_new",
          "ml_indexes", "ml_record"}

(***************************************************************************)
(* Service calls.  A call is [op, pc, k, u, s, id, id2, uid, flag, x, y,   *)
(* e, err, ret, pre]: the method, its position, the position to continue   *)
(* at after a helper returns, the arguments (username, name or text, ids,  *)
(* completed flag; an optional id that is not passed is 0), two locals,    *)
(* the error a catch block holds while it re-reads, the message of the     *)
(* rejection (outermost wrapper first; <<>> when the call resolved), the   *)
(* value resolved with, and the database as it was when the call began.    *)
(* Every step is one SQL statement and the code up to the next one.        *)
(***************************************************************************)
MaxUsernameLength == 50
MaxListNameLength == 100
MaxTodoTextLength == 500

NoCall ==
  [op |-> "idle", pc |-> "idle", k |-> "", u |-> EmptyStr, s |-> EmptyStr, id |-> 0,
   id2 |-> 0, uid |-> 0, flag |-> FALSE, x |-> 0, y |-> 0, e |-> <<>>, err |-> <<>>,
   ret |-> <<>>, pre |-> EmptyDb]

Goto(c, pc) == [c EXCEPT !.pc = pc]
Throw(c, msg) == [c EXCEPT !.pc = "done", !.err = msg]
Return(c, ret) == [c EXCEPT !.pc = "done", !.ret = ret]
One(rows) == CHOOSE r \in rows : TRUE

\* error.message.includes('UNIQUE constraint failed')
IsUnique(msg) == \E i \in 1..Len(msg) : msg[i] = "UNIQUE constraint failed"

\* error.message.includes('CHECK constraint failed')
IsCheck(msg) == \E i \in 1..Len(msg) : msg[i] = "CHECK constraint failed"

DC(d, c) == [d |-> d, c |-> c]

(***************************************************************************)
(* UserService                                                             *)
(***************************************************************************)
UntrimmedUsername(u) == u

\* const trimmedUsername = username.trim()
TrimmedUsername(u) == Trim(u)

\* the validation of getOrCreateUser and its first statement
StartGetOrCreateUser(u) ==
  LET c == [NoCall EXCEPT !.op = "getOrCreateUser", !.u = u]
  IN IF StrLen(TrimmedUsername(u)) = 0
       THEN Throw(c, <<"Username cannot be empty or contain only whitespace">>)
     ELSE IF StrLen(TrimmedUsername(u)) > MaxUsernameLength
       THEN Throw(c, <<"Username cannot exceed 50 characters">>)
     ELSE Goto(c, "gocu_select")

\* a catch block that wraps every error
GetOrCreateUserCatchRethrows(c, msg) ==
  Throw(c, <<"Failed to get or create user">> \o msg)

\* the catch block of getOrCreateUser
GetOrCreateUserCatch(c, msg) ==
  IF IsUnique(msg) THEN [c EXCEPT !.pc = "gocu_requery", !.e = msg]
  ELSE Throw(c, <<"Failed to get or create user">> \o msg)

StartCreateDefaultList(userId) ==
  LET c == [NoCall EXCEPT !.op = "createDefaultList", !.x = userId]
  IN IF userId <= 0 THEN Throw(c, <<"User ID must be a positive integer">>)
     ELSE Goto(c, "cdl_user")

\* createDefaultList rejects: to its caller when getOrCreateUser awaits it
CreateDefaultListThrow(c, msg) ==
  IF c.op = "getOrCreateUser" THEN GetOrCreateUserCatch(c, msg) ELSE Throw(c, msg)

\* the catch block of createDefaultList
CreateDefaultListCatch(c, msg) ==
  IF IsUnique(msg) THEN [c EXCEPT !.pc = "cdl_requery", !.e = msg]
  ELSE CreateDefaultListThrow(c, <<"Failed to create default list">> \o msg)

CreateDefaultListReturn(c, row) ==
  IF c.op = "getOrCreateUser" THEN Goto(c, "gocu_reselect") ELSE Return(c, <<row>>)

\* createDefaultList(userId), userId held in c.x
CreateDefaultList(d, c, t) ==
  CASE c.pc = "cdl_user" ->
         LET q == SelectUserById(d, c.x)
         IN IF q.err # "" THEN DC(d, CreateDefaultListCatch(c, <<q.err>>))
            ELSE IF q.rows = {}
              THEN DC(d, CreateDefaultListCatch(c, <<"User with ID not found">>))
            ELSE DC(d, Goto(c, "cdl_select"))
    [] c.pc = "cdl_select" ->
         LET q == SelectListByUserAndName(d, c.x, DefaultListName)
         IN IF q.err # "" THEN DC(d, CreateDefaultListCatch(c, <<q.err>>))
            ELSE IF q.rows # {} THEN DC(d, CreateDefaultListReturn(c, One(q.rows)))
            ELSE DC(d, Goto(c, "cdl_insert"))
    [] c.pc = "cdl_insert" ->
         LET r == InsertList(d, DefaultListName, c.x, t)
         IN IF r.err # "" THEN DC(r.d, CreateDefaultListCatch(c, <<r.err>>))
            ELSE DC(r.d, [c EXCEPT !.pc = "cdl_get", !.y = r.lastID])
    [] c.pc = "cdl_get" ->
         LET q == SelectListById(d, c.y)
         IN IF q.err # "" THEN DC(d, CreateDefaultListCatch(c, <<q.err>>))
            ELSE IF q.rows = {}
              THEN DC(d, CreateDefaultListCatch(c, <<"Failed to retrieve created default list">>))
            ELSE DC(d, CreateDefaultListReturn(c, One(q.rows)))
    [] c.pc = "cdl_requery" ->
         LET q == SelectListByUserAndName(d, c.x, DefaultListName)
         IN IF q.err = "" /\ q.rows # {}
              THEN DC(d, CreateDefaultListReturn(c, One(q.rows)))
              ELSE DC(d, CreateDefaultListThrow(c, <<"Failed to create default list">> \o c.e))

CdlPcs == {"cdl_user", "cdl_select", "cdl_insert", "cdl_get", "cdl_requery"}

GetOrCreateUser(d, c, t) ==
  CASE c.pc = "gocu_select" ->
         LET q == SelectUserByUsername(d, TrimmedUsername(c.u))
         IN IF q.err # "" THEN DC(d, GetOrCreateUserCatch(c, <<q.err>>))
            ELSE IF q.rows # {} THEN DC(d, Return(c, <<One(q.rows)>>))
            ELSE DC(d, Goto(c, "gocu_insert"))
    [] c.pc = "gocu_insert" ->
         LET r == InsertUser(d, TrimmedUsername(c.u), t)
         IN IF r.err # "" THEN DC(r.d, GetOrCreateUserCatch(c, <<r.err>>))
            ELSE DC(r.d, [c EXCEPT !.pc = "cdl_user", !.x = r.lastID])
    [] c.pc \in CdlPcs -> CreateDefaultList(d, c, t)
    [] c.pc = "gocu_reselect" ->
         LET q == SelectUserById(d, c.x)
         IN IF q.err # "" THEN DC(d, GetOrCreateUserCatch(c, <<q.err>>))
            ELSE IF q.rows = {}
              THEN DC(d, GetOrCreateUserCatch(c, <<"Failed to retrieve created user">>))
            ELSE DC(d, Return(c, <<One(q.rows)>>))
    [] c.pc = "gocu_requery" ->
         LET q == SelectUserByUsername(d, TrimmedUsername(c.u))
         IN IF q.err = "" /\ q.rows # {} THEN DC(d, Return(c, <<One(q.rows)>>))
            ELSE DC(d, Throw(c, <<"Failed to get or create user">> \o c.e))

(***************************************************************************)
(* TodoListService                                                         *)
(***************************************************************************)
\* the name stored as it was given
UntrimmedListName(name) == name

\* const trimmedName = name.trim()
TrimmedListName(name) == Trim(name)

ListNameError(name) ==
  IF StrLen(Trim(name)) = 0
    THEN <<"List name cannot be empty or contain only whitespace">>
  ELSE IF StrLen(Trim(name)) > MaxListNameLength
    THEN <<"List name cannot exceed 100 characters">>
  ELSE <<>>

StartCreateList(userId, name) ==
  LET c == [NoCall EXCEPT !.op = "createList", !.uid = userId, !.s = name]
  IN IF userId <= 0 THEN Throw(c, <<"User ID must be a positive integer">>)
     ELSE IF ListNameError(name) # <<>> THEN Throw(c, ListNameError(name))
     ELSE Goto(c, "cl_user")

AlreadyExists == "A list named already exists for this user"

\* the catch block of createList
CreateListCatch(c, msg) ==
  IF IsUnique(msg) THEN Throw(c, <<AlreadyExists>>)
  ELSE Throw(c, <<"Failed to create list">> \o msg)

CreateList(d, c, t) ==
  CASE c.pc = "cl_user" ->
         LET q == SelectUserById(d, c.uid)
         IN IF q.err # "" THEN DC(d, CreateListCatch(c, <<q.err>>))
            ELSE IF q.rows = {} THEN DC(d, CreateListCatch(c, <<"User with ID not found">>))
            ELSE DC(d, Goto(c, "cl_dup"))
    [] c.pc = "cl_dup" ->
         LET q == SelectListByUserAndName(d, c.uid, TrimmedListName(c.s))
         IN IF q.err # "" THEN DC(d, CreateListCatch(c, <<q.err>>))
            ELSE IF q.rows # {} THEN DC(d, CreateListCatch(c, <<AlreadyExists>>))
            ELSE DC(d, Goto(c, "cl_insert"))
    [] c.pc = "cl_insert" ->
         LET r == InsertList(d, TrimmedListName(c.s), c.uid, t)
         IN IF r.err # "" THEN DC(r.d, CreateListCatch(c, <<r.err>>))
            ELSE DC(r.d, [c EXCEPT !.pc = "cl_get", !.x = r.lastID])
    [] c.pc = "cl_get" ->
         LET q == SelectListById(d, c.x)
         IN IF q.err # "" THEN DC(d, CreateListCatch(c, <<q.err>>))
            ELSE IF q.rows = {}
              THEN DC(d, CreateListCatch(c, <<"Failed to retrieve created list">>))
            ELSE DC(d, Return(c, <<One(q.rows)>>))

OwnershipNeverChecked(row, userId) == FALSE

\* userId !== undefined && existingList.user_id !== userId (0: no userId given)
NotOwner(row, userId) == userId # 0 /\ row.user_id # userId

StartUpdateListName(listId, name, userId) ==
  LET c == [NoCall EXCEPT !.op = "updateListName", !.id = listId, !.s = name,
                          !.uid = userId]
  IN IF listId <= 0 THEN Throw(c, <<"List ID must be a positive integer">>)
     ELSE IF ListNameError(name) # <<>> THEN Throw(c, ListNameError(name))
     ELSE Goto(c, "ul_get")

ListNotFound == "List with ID not found"

\* the catch block of updateListName
UpdateListNameCatch(c, msg) ==
  IF IsUnique(msg) THEN Throw(c, <<AlreadyExists>>)
  ELSE Throw(c, <<"Failed to update list name">> \o msg)

UpdateListName(d, c) ==
  CASE c.pc = "ul_get" ->
         LET q == SelectListById(d, c.id)
         IN IF q.err # "" THEN DC(d, UpdateListNameCatch(c, <<q.err>>))
            ELSE IF q.rows = {} THEN DC(d, UpdateListNameCatch(c, <<ListNotFound>>))
            ELSE IF NotOwner(One(q.rows), c.uid)
              THEN DC(d, UpdateListNameCatch(c, <<ListNotFound>>))
            ELSE DC(d, [c EXCEPT !.pc = "ul_conflict", !.x = One(q.rows).user_id])
    [] c.pc = "ul_conflict" ->
         LET q == SelectConflictingList(d, c.x, TrimmedListName(c.s), c.id)
         IN IF q.err # "" THEN DC(d, UpdateListNameCatch(c, <<q.err>>))
            ELSE IF q.rows # {} THEN DC(d, UpdateListNameCatch(c, <<AlreadyExists>>))
            ELSE DC(d, Goto(c, "ul_update"))
    [] c.pc = "ul_update" ->
         LET r == UpdateListNameStmt(d, TrimmedListName(c.s), c.id)
         IN IF r.err # "" THEN DC(r.d, UpdateListNameCatch(c, <<r.err>>))
            ELSE IF r.lastID = 0 THEN DC(r.d, UpdateListNameCatch(c, <<ListNotFound>>))
            ELSE DC(r.d, Goto(c, "ul_reget"))
    [] c.pc = "ul_reget" ->
         LET q == SelectListById(d, c.id)
         IN IF q.err # "" THEN DC(d, UpdateListNameCatch(c, <<q.err>>))
            ELSE IF q.rows = {}
              THEN DC(d, UpdateListNameCatch(c, <<"Failed to retrieve updated list">>))
            ELSE DC(d, Return(c, <<One(q.rows)>>))

StartDeleteList(listId, userId) ==
  LET c == [NoCall EXCEPT !.op = "deleteList", !.id = listId, !.uid = userId]
  IN IF listId <= 0 THEN Throw(c, <<"List ID must be a positive integer">>)
     ELSE Goto(c, "del_get")

\* the catch block of deleteList
DeleteListCatch(c, msg) == Throw(c, <<"Failed to delete list">> \o msg)

LastListNeverProtected(count) == FALSE

\* userListCount && userListCount.count <= 1
\* the guard off by one
IsLastListOffByOne(count) == count <= 2

\* userListCount && userListCount.count <= 1: COUNT(*) always yields a row
IsLastList(count) == count <= 1

LastList == "Cannot delete the last remaining list"

DeleteList(d, c) ==
  CASE c.pc = "del_get" ->
         LET q == SelectListById(d, c.id)
         IN IF q.err # "" THEN DC(d, DeleteListCatch(c, <<q.err>>))
            ELSE IF q.rows = {} THEN DC(d, DeleteListCatch(c, <<ListNotFound>>))
            ELSE IF NotOwner(One(q.rows), c.uid)
              THEN DC(d, DeleteListCatch(c, <<ListNotFound>>))
            ELSE DC(d, [c EXCEPT !.pc = "del_count", !.x = One(q.rows).user_id])
    [] c.pc = "del_count" ->
         IF IsLastList(CountListsOfUser(d, c.x))
           THEN DC(d, DeleteListCatch(c, <<LastList>>))
           ELSE DC(d, Goto(c, "del_delete"))
    [] c.pc = "del_delete" ->
         LET r == DeleteListStmt(d, c.id)
         IN IF r.err # "" THEN DC(r.d, DeleteListCatch(c, <<r.err>>))
            ELSE IF r.lastID = 0 THEN DC(r.d, DeleteListCatch(c, <<ListNotFound>>))
            ELSE DC(r.d, Return(c, <<>>))

StartGetListById(listId, userId) ==
  LET c == [NoCall EXCEPT !.op = "getListById", !.id = listId, !.uid = userId]
  IN IF listId <= 0 THEN Throw(c, <<"List ID must be a positive integer">>)
     ELSE Goto(c, "gl_get")

\* the catch block of getListById
GetListByIdCatch(c, msg) == Throw(c, <<"Failed to get list by ID">> \o msg)

\* the list, or null (no value) when the query has no row
GetListById(d, c) ==
  LET q == IF c.uid # 0 THEN SelectListByIdAndUser(d, c.id, c.uid)
           ELSE SelectListById(d, c.id)
  IN IF q.err # "" THEN DC(d, GetListByIdCatch(c, <<q.err>>))
     ELSE IF q.rows = {} THEN DC(d, Return(c, <<>>))
     ELSE DC(d, Return(c, <<One(q.rows)>>))

(***************************************************************************)
(* TodoService.  isNewSchema is "null", "true" or "false".                 *)
(***************************************************************************)
DSC(d, sch, c) == [d |-> d, sch |-> sch, c |-> c]

\* checkSchemaVersion past its test of the cached value: the ledger query,
\* whose answer is assigned to isNewSchema whatever it holds by then (false
\* when the migrations table is absent and the query throws)
CheckSchemaVersion(d) ==
  IF ~HasTable(d, "migrations") THEN "false"
  ELSE IF LedgerHas(d, MigrateToMultiList) THEN "true"
  ELSE "false"

\* mapToLegacyTodo(mapRowToTodoNewSchema(row)) and mapRowToTodoOldSchemaLegacy(row)
LegacyTodo(row) ==
  [id |-> row.id, text |-> row.text, completed |-> row.completed,
   createdAt |-> row.created_at]

\* mapRowToTodoNewSchema(row)
Todo(row) ==
  [id |-> row.id, text |-> row.text, completed |-> row.completed,
   list_id |-> row.list_id, created_at |-> row.created_at]

TodoNotFound == "Todo with ID not found"
NeedsNewSchema == "List-based operations require the new schema"
EmptyText == "Todo text cannot be empty or contain only whitespace"

\* the catch blocks of the public methods
TodoCatch(c, msg) ==
  CASE c.op = "getAllTodos" -> Throw(c, <<"Failed to retrieve todos">> \o msg)
    [] c.op \in {"createTodo", "createTodoInList"} ->
         IF IsCheck(msg) THEN Throw(c, <<EmptyText>>)
         ELSE Throw(c, <<"Failed to create todo">> \o msg)
    [] c.op = "updateTodo" -> Throw(c, <<"Failed to update todo">> \o msg)
    [] c.op = "deleteTodo" -> Throw(c, <<"Failed to delete todo">> \o msg)
    [] c.op = "moveTodoToList" -> Throw(c, <<"Failed to move todo">> \o msg)

\* getDefaultListId(username): the user id is left in c.x, the list id in c.y
GetDefaultListId(d, c, t) ==
  CASE c.pc = "gd_user" ->
         LET q == SelectUserByUsername(d, c.u)
         IN IF q.err # "" THEN DC(d, TodoCatch(c, <<q.err>>))
            ELSE IF q.rows # {} THEN DC(d, [c EXCEPT !.pc = "gd_list", !.x = One(q.rows).id])
            ELSE DC(d, Goto(c, "gd_insuser"))
    [] c.pc = "gd_insuser" ->
         LET r == InsertUser(d, c.u, t)
         IN IF r.err # "" THEN DC(r.d, TodoCatch(c, <<r.err>>))
            ELSE DC(r.d, [c EXCEPT !.pc = "gd_list", !.x = r.lastID])
    [] c.pc = "gd_list" ->
         LET q == SelectListByUserAndName(d, c.x, DefaultListName)
         IN IF q.err # "" THEN DC(d, TodoCatch(c, <<q.err>>))
            ELSE IF q.rows # {} THEN DC(d, [c EXCEPT !.pc = c.k, !.y = One(q.rows).id])
            ELSE DC(d, Goto(c, "gd_inslist"))
    [] c.pc = "gd_inslist" ->
         LET r == InsertList(d, DefaultListName, c.x, t)
         IN IF r.err # "" THEN DC(r.d, TodoCatch(c, <<r.err>>))
            ELSE DC(r.d, [c EXCEPT !.pc = c.k, !.y = r.lastID])

GdPcs == {"gd_user", "gd_insuser", "gd_list", "gd_inslist"}

\* a call of getTodoById(c.id, c.u), to continue at k
EnterGetTodoById(sch, c, k) ==
  [c EXCEPT !.k = k, !.pc = IF sch = "true" THEN "gt_user" ELSE "gt_row"]

\* getTodoById: the todo found is left in c.ret, <<>> for null
GetTodoById(d, sch, c) ==
  CASE c.pc = "gt_user" ->
         LET q == SelectUserByUsername(d, c.u)
         IN IF q.err # ""
              THEN DC(d, TodoCatch(c, <<"Failed to retrieve todo by ID", q.err>>))
            ELSE IF q.rows = {} THEN DC(d, [c EXCEPT !.pc = c.k, !.ret = <<>>])
            ELSE DC(d, [c EXCEPT !.pc = "gt_row", !.x = One(q.rows).id])
    [] c.pc = "gt_row" ->
         LET q == IF sch = "true" THEN SelectTodoOfUser(d, c.id, c.x)
                  ELSE SelectLegacyTodo(d, c.id, c.u)
         IN IF q.err # ""
              THEN DC(d, TodoCatch(c, <<"Failed to retrieve todo by ID", q.err>>))
            ELSE IF q.rows = {} THEN DC(d, [c EXCEPT !.pc = c.k, !.ret = <<>>])
            ELSE DC(d, [c EXCEPT !.pc = c.k, !.ret = <<LegacyTodo(One(q.rows))>>])

GtPcs == {"gt_user", "gt_row"}

RECURSIVE MapSeq(_, _)
MapSeq(f(_), q) == IF q = <<>> THEN <<>> ELSE <<f(Head(q))>> \o MapSeq(f, Tail(q))

GetAllTodos(d, sch, c, t) ==
  CASE c.pc \in GdPcs -> GetDefaultListId(d, c, t)
    [] c.pc = "ga_query" ->
         LET q == IF sch = "true" THEN SelectTodosOfList(d, c.y)
                  ELSE SelectTodosOfUsername(d, c.u)
         IN IF q.err # "" THEN DC(d, TodoCatch(c, <<q.err>>))
            ELSE DC(d, Return(c, MapSeq(LegacyTodo, OrderTodos(q.rows))))

\* the length test off by one
TodoTextErrorAtLimit(text) ==
  IF StrLen(Trim(text)) = 0 THEN <<EmptyText>>
  ELSE IF StrLen(Trim(text)) >= MaxTodoTextLength
    THEN <<"Todo text cannot exceed 500 characters">>
  ELSE <<>>

TodoTextError(text) ==
  IF StrLen(Trim(text)) = 0 THEN <<EmptyText>>
  ELSE IF StrLen(Trim(text)) > MaxTodoTextLength
    THEN <<"Todo text cannot exceed 500 characters">>
  ELSE <<>>

CreateTodo(d, sch, c, t) ==
  CASE c.pc \in GdPcs -> GetDefaultListId(d, c, t)
    [] c.pc = "ct_user" ->
         LET q == SelectUserByUsername(d, c.u)
         IN IF q.err # "" THEN DC(d, TodoCatch(c, <<q.err>>))
            ELSE IF q.rows = {} THEN DC(d, TodoCatch(c, <<"User not found">>))
            ELSE DC(d, [c EXCEPT !.pc = "ct_list", !.x = One(q.rows).id])
    [] c.pc = "ct_list" ->
         LET q == SelectListByIdAndUser(d, c.id2, c.x)
         IN IF q.err # "" THEN DC(d, TodoCatch(c, <<q.err>>))
            ELSE IF q.rows = {}
              THEN DC(d, TodoCatch(c, <<"List not found or does not belong to user">>))
            ELSE DC(d, [c EXCEPT !.pc = "ct_insert", !.y = c.id2])
    [] c.pc = "ct_insert" ->
         LET r == IF sch = "true"
                    THEN InsertNewTodo(d, "todos",
                                       TodoRow(0, Trim(c.s), FALSE, t, EmptyStr, c.y))
                    ELSE InsertLegacyTodo(d, Trim(c.s), c.u, t)
         IN IF r.err # "" THEN DC(r.d, TodoCatch(c, <<r.err>>))
            ELSE DC(r.d, EnterGetTodoById(sch, [c EXCEPT !.id = r.lastID], "ct_done"))
    [] c.pc \in GtPcs -> GetTodoById(d, sch, c)
    [] c.pc = "ct_done" ->
         IF c.ret = <<>> THEN DC(d, TodoCatch(c, <<"Failed to retrieve created todo">>))
         ELSE DC(d, Return(c, c.ret))

CreateTodoInList(d, c, t) ==
  CASE c.pc = "cil_list" ->
         LET q == SelectListById(d, c.id2)
         IN IF q.err # "" THEN DC(d, TodoCatch(c, <<q.err>>))
            ELSE IF q.rows = {} THEN DC(d, TodoCatch(c, <<"List not found">>))
            ELSE DC(d, Goto(c, "cil_insert"))
    [] c.pc = "cil_insert" ->
         LET r == InsertNewTodo(d, "todos", TodoRow(0, Trim(c.s), FALSE, t, EmptyStr, c.id2))
         IN IF r.err # "" THEN DC(r.d, TodoCatch(c, <<r.err>>))
            ELSE DC(r.d, [c EXCEPT !.pc = "cil_get", !.id = r.lastID])
    [] c.pc = "cil_get" ->
         \* getTodoByIdInList
         LET q == SelectTodoInList(d, c.id, c.id2)
         IN IF q.err # ""
              THEN DC(d, TodoCatch(c, <<"Failed to retrieve todo by ID in list", q.err>>))
            ELSE IF q.rows = {}
              THEN DC(d, TodoCatch(c, <<"Failed to retrieve created todo">>))
            ELSE DC(d, Return(c, <<Todo(One(q.rows))>>))

UpdateTodo(d, sch, c) ==
  CASE c.pc \in GtPcs -> GetTodoById(d, sch, c)
    [] c.pc = "ut_checked" ->
         IF c.ret = <<>> THEN DC(d, TodoCatch(c, <<TodoNotFound>>))
         ELSE DC(d, Goto(c, IF sch = "true" THEN "ut_user" ELSE "ut_update"))
    [] c.pc = "ut_user" ->
         LET q == SelectUserByUsername(d, c.u)
         IN IF q.err # "" THEN DC(d, TodoCatch(c, <<q.err>>))
            ELSE IF q.rows = {} THEN DC(d, TodoCatch(c, <<"User not found">>))
            ELSE DC(d, [c EXCEPT !.pc = "ut_update", !.x = One(q.rows).id])
    [] c.pc = "ut_update" ->
         LET r == IF sch = "true" THEN UpdateCompletedOfUser(d, c.flag, c.id, c.x)
                  ELSE UpdateCompletedLegacy(d, c.flag, c.id, c.u)
         IN IF r.err # "" THEN DC(r.d, TodoCatch(c, <<r.err>>))
            ELSE IF r.lastID = 0 THEN DC(r.d, TodoCatch(c, <<TodoNotFound>>))
            ELSE DC(r.d, EnterGetTodoById(sch, c, "ut_done"))
    [] c.pc = "ut_done" ->
         IF c.ret = <<>> THEN DC(d, TodoCatch(c, <<"Failed to retrieve updated todo">>))
         ELSE DC(d, Return(c, c.ret))

DeleteTodo(d, sch, c) ==
  CASE c.pc \in GtPcs -> GetTodoById(d, sch, c)
    [] c.pc = "dt_checked" ->
         IF c.ret = <<>> THEN DC(d, TodoCatch(c, <<TodoNotFound>>))
         ELSE DC(d, Goto(c, IF sch = "true" THEN "dt_user" ELSE "dt_delete"))
    [] c.pc = "dt_user" ->
         LET q == SelectUserByUsername(d, c.u)
         IN IF q.err # "" THEN DC(d, TodoCatch(c, <<q.err>>))
            ELSE IF q.rows = {} THEN DC(d, TodoCatch(c, <<"User not found">>))
            ELSE DC(d, [c EXCEPT !.pc = "dt_delete", !.x = One(q.rows).id])
    [] c.pc = "dt_delete" ->
         LET r == IF sch = "true" THEN DeleteTodoOfUser(d, c.id, c.x)
                  ELSE DeleteTodoLegacy(d, c.id, c.u)
         IN IF r.err # "" THEN DC(r.d, TodoCatch(c, <<r.err>>))
            ELSE IF r.lastID = 0 THEN DC(r.d, TodoCatch(c, <<TodoNotFound>>))
            ELSE DC(r.d, Return(c, <<>>))

MoveTodoToList(d, c) ==
  CASE c.pc = "mt_target" ->
         LET q == SelectListByIdAndUser(d, c.id2, c.uid)
         IN IF q.err # "" THEN DC(d, TodoCatch(c, <<q.err>>))
            ELSE IF q.rows = {}
              THEN DC(d, TodoCatch(c, <<"Target list not found or does not belong to user">>))
            ELSE DC(d, Goto(c, "mt_todo"))
    [] c.pc = "mt_todo" ->
         LET q == SelectTodoOfUser(d, c.id, c.uid)
         IN IF q.err # "" THEN DC(d, TodoCatch(c, <<q.err>>))
            ELSE IF q.rows = {}
              THEN DC(d, TodoCatch(c, <<"Todo not found or does not belong to user">>))
            ELSE DC(d, Goto(c, "mt_update"))
    [] c.pc = "mt_update" ->
         LET r == UpdateTodoList(d, c.id2, c.id)
         IN IF r.err # "" THEN DC(r.d, TodoCatch(c, <<r.err>>))
            ELSE IF r.lastID = 0
              THEN DC(r.d, TodoCatch(c, <<"Failed to move todo to target list">>))
            ELSE DC(r.d, Goto(c, "mt_get"))
    [] c.pc = "mt_get" ->
         \* getTodoByIdInList
         LET q == SelectTodoInList(d, c.id, c.id2)
         IN IF q.err # ""
              THEN DC(d, TodoCatch(c, <<"Failed to retrieve todo by ID in list", q.err>>))
            ELSE IF q.rows = {} THEN DC(d, TodoCatch(c, <<"Failed to retrieve moved todo">>))
            ELSE DC(d, Return(c, <<Todo(One(q.rows))>>))

\* where a TodoService method goes once checkSchemaVersion has answered
AfterSchema(sch, c) ==
  CASE c.op = "getAllTodos" ->
         IF sch = "true" THEN [c EXCEPT !.pc = "gd_user", !.k = "ga_query"]
         ELSE Goto(c, "ga_query")
    [] c.op = "createTodo" ->
         IF sch = "true"
           THEN (IF c.id2 # 0 THEN Goto(c, "ct_user")
                 ELSE [c EXCEPT !.pc = "gd_user", !.k = "ct_insert"])
           ELSE Goto(c, "ct_insert")
    [] c.op = "updateTodo" -> EnterGetTodoById(sch, c, "ut_checked")
    [] c.op = "deleteTodo" -> EnterGetTodoById(sch, c, "dt_checked")
    [] c.op = "createTodoInList" ->
         IF sch = "true" THEN Goto(c, "cil_list") ELSE TodoCatch(c, <<NeedsNewSchema>>)
    [] c.op = "moveTodoToList" ->
         IF sch = "true" THEN Goto(c, "mt_target") ELSE TodoCatch(c, <<NeedsNewSchema>>)

\* a TodoService call past its validation: the ledger query comes first when
\* the instance has not cached the schema version
Enter(sch, c) == IF sch = "null" THEN Goto(c, "schema") ELSE AfterSchema(sch, c)

StartGetAllTodos(sch, u) == Enter(sch, [NoCall EXCEPT !.op = "getAllTodos", !.u = u])

StartCreateTodo(sch, u, text, listId) ==
  LET c == [NoCall EXCEPT !.op = "createTodo", !.u = u, !.s = text, !.id2 = listId]
  IN IF TodoTextError(text) # <<>> THEN Throw(c, TodoTextError(text)) ELSE Enter(sch, c)

StartCreateTodoInList(sch, listId, text) ==
  LET c == [NoCall EXCEPT !.op = "createTodoInList", !.id2 = listId, !.s = text]
  IN IF TodoTextError(text) # <<>> THEN Throw(c, TodoTextError(text)) ELSE Enter(sch, c)

StartUpdateTodo(sch, u, id, completed) ==
  LET c == [NoCall EXCEPT !.op = "updateTodo", !.u = u, !.id = id, !.flag = completed]
  IN IF id <= 0 THEN Throw(c, <<"Todo ID must be a positive integer">>) ELSE Enter(sch, c)

StartDeleteTodo(sch, u, id) ==
  LET c == [NoCall EXCEPT !.op = "deleteTodo", !.u = u, !.id = id]
  IN IF id <= 0 THEN Throw(c, <<"Todo ID must be a positive integer">>) ELSE Enter(sch, c)

StartMoveTodoToList(sch, todoId, targetListId, userId) ==
  LET c == [NoCall EXCEPT !.op = "moveTodoToList", !.id = todoId, !.id2 = targetListId,
                          !.uid = userId]
  IN IF todoId <= 0 THEN Throw(c, <<"Todo ID must be a positive integer">>)
     ELSE IF targetListId <= 0 THEN Throw(c, <<"Target list ID must be a positive integer">>)
     ELSE IF userId <= 0 THEN Throw(c, <<"User ID must be a positive integer">>)
     ELSE Enter(sch, c)

TodoServiceOps ==
  {"getAllTodos", "createTodo", "createTodoInList", "updateTodo", "deleteTodo",
   "moveTodoToList"}

\* one step of a call: the next statement of its method
Step(d, sch, c, t) ==
  LET keep(r) == DSC(r.d, sch, r.c)
  IN CASE c.op \in TodoServiceOps /\ c.pc = "schema" ->
            DSC(d, CheckSchemaVersion(d), AfterSchema(CheckSchemaVersion(d), c))
       [] c.op = "getOrCreateUser" -> keep(GetOrCreateUser(d, c, t))
       [] c.op = "createDefaultList" -> keep(CreateDefaultList(d, c, t))
       [] c.op = "createList" -> keep(CreateList(d, c, t))
       [] c.op = "updateListName" -> keep(UpdateListName(d, c))
       [] c.op = "deleteList" -> keep(DeleteList(d, c))
       [] c.op = "getListById" -> keep(GetListById(d, c))
       [] c.op = "getAllTodos" /\ c.pc # "schema" -> keep(GetAllTodos(d, sch, c, t))
       [] c.op = "createTodo" /\ c.pc # "schema" -> keep(CreateTodo(d, sch, c, t))
       [] c.op = "createTodoInList" /\ c.pc # "schema" -> keep(CreateTodoInList(d, c, t))
       [] c.op = "updateTodo" /\ c.pc # "schema" -> keep(UpdateTodo(d, sch, c))
       [] c.op = "deleteTodo" /\ c.pc # "schema" -> keep(DeleteTodo(d, sch, c))
       [] c.op = "moveTodoToList" /\ c.pc # "schema" -> keep(MoveTodoToList(d, c))

\* a call run to its end with no other call's statement in between
RECURSIVE Run(_, _, _, _)
Run(d, sch, c, t) ==
  IF c.pc = "done" THEN DSC(d, sch, c)
  ELSE CHOOSE x \in {Run(r.d, r.sch, r.c, t) : r \in {Step(d, sch, c, t)}} : TRUE

\* one statement of a run of initializeDatabase
MigStep(d, m, t) ==
  CASE m.pc = "createTodosTable" -> CreateTodosTable(d, m)
    [] m.pc = "createMigrationsTable" -> CreateMigrationsTable(d, m)
    [] m.pc \in AuPcs -> AddUsernameColumnMigration(d, m)
    [] m.pc \in MlPcs -> MigrateToMultiListSchema(d, m, t)
    [] m.pc = "createIndexes" -> MigCreateIndexes(d, m)

\* the database a run of initializeDatabase leaves
RECURSIVE InitializeDatabase(_, _, _)
InitializeDatabase(d, m, t) ==
  IF m.pc \in {"done", "failed"} THEN d
  ELSE CHOOSE x \in {InitializeDatabase(r.d, r.m, t) : r \in {MigStep(d, m, t)}} : TRUE

Procs == {"p1", "p2"}

VARIABLES
  db,          \* the database file
  now,         \* CURRENT_TIMESTAMP
  mig,         \* the initializeDatabase run: its position and locals
  runs,        \* number of initializeDatabase runs started
  prevOk,      \* the run before the current one completed successfully
  legacy0,     \* rows of the legacy todos table in the starting database
  isNewSchema, \* TodoService.isNewSchema: "null", "true" or "false"
  call,        \* the service call of each caller
  owner,       \* <<todo id, username>> of the todos createTodo has created
  server,      \* position of start in server.ts: "starting" (awaiting
               \* initializeDatabase), "listening", "catch" or "exited"
  fault,       \* position of the run a storage error interrupted, "" if none
  twin         \* the database of a second TodoService, on the legacy schema

vars == <<db, now, mig, runs, prevOk, legacy0, isNewSchema, call, owner, server, fault, twin>>
migVars == <<mig, runs, prevOk, legacy0, server, fault, twin>>
svcVars == <<isNewSchema, call, owner>>

(***************************************************************************)
(* Starting databases of the migration runner: a new file, or a database   *)
(* left by an earlier release (the todos table without the username        *)
(* column and no ledger, or with the column, the ledger entry and the      *)
(* original indexes), holding up to MaxLegacy rows.                        *)
(***************************************************************************)
Milk == Str(0, "milk", 4, 0)
MilkPadded == Str(1, "milk", 4, 1)
Eggs == Str(0, "eggs", 4, 0)
Alice == Str(0, "alice", 5, 0)
AlicePadded == Str(1, "alice", 5, 0)
Bob == Str(0, "bob", 3, 0)
Work == Str(0, "Work", 4, 0)
WorkLower == Str(0, "work", 4, 0)
WorkPadded == Str(0, "Work", 4, 1)

LegacyTexts == {Milk, Eggs}
LegacyTimes == {-1, 0}

LegacyRowSets(usernames) ==
  UNION { { {TodoRow(i, f[i][1], f[i][2], f[i][3], f[i][4], 0) : i \in 1..n} :
              f \in [1..n -> LegacyTexts \X BOOLEAN \X LegacyTimes \X usernames] } :
          n \in 0..MaxLegacy }

WithIndexes(d, list) == CreateIndexes(d, list, 1).d

LegacyDbV0(rows, indexed) ==
  LET d == [EmptyDb EXCEPT !.cols["todos"] = LegacyBaseCols,
                           !.rows["todos"] = rows,
                           !.seq["todos"] = Cardinality(rows)]
  IN IF indexed THEN WithIndexes(d, SubSeq(OriginalIndexes, 1, 2)) ELSE d

LegacyDbV1(rows) ==
  WithIndexes([EmptyDb EXCEPT !.cols["todos"] = LegacyBaseCols \cup {"username"},
                              !.cols["migrations"] = MigrationsCols,
                              !.migrations = {AddUsernameColumn},
                              !.rows["todos"] = rows,
                              !.seq["todos"] = Cardinality(rows)],
              OriginalIndexes)

StartingDbs ==
  {EmptyDb}
    \cup {LegacyDbV0(rows, ix) : rows \in LegacyRowSets({EmptyStr}), ix \in BOOLEAN}
    \cup {LegacyDbV1(rows) : rows \in LegacyRowSets({EmptyStr, Alice})}

IdleServices ==
  /\ isNewSchema = "null"
  /\ call = [p \in Procs |-> NoCall]
  /\ owner = {}

MigInit ==
  /\ db \in StartingDbs
  /\ now = 0
  /\ mig = NewRun
  /\ runs = 1
  /\ prevOk = FALSE
  /\ legacy0 = db.rows["todos"]
  /\ IdleServices
  /\ server = "starting"
  /\ fault = ""
  /\ twin = EmptyDb

MigApply(r) ==
  /\ db' = r.d
  /\ mig' = r.m
  /\ UNCHANGED <<now, runs, prevOk, legacy0, svcVars, server, fault, twin>>

StepCreateTodosTable ==
  /\ mig.pc = "createTodosTable"
  /\ MigApply(MigStep(db, mig, now))

StepCreateMigrationsTable ==
  /\ mig.pc = "createMigrationsTable"
  /\ MigApply(MigStep(db, mig, now))

StepAddUsernameColumn ==
  /\ mig.pc \in AuPcs
  /\ MigApply(MigStep(db, mig, now))

StepMigrateToMultiList ==
  /\ mig.pc \in MlPcs
  /\ MigApply(MigStep(db, mig, now))

StepCreateIndexes ==
  /\ mig.pc = "createIndexes"
  /\ MigApply(MigStep(db, mig, now))

\* the process is started again on the same database file
Restart ==
  /\ mig.pc \in {"done", "failed"}
  /\ runs < MaxRuns
  /\ mig' = NewRun
  /\ runs' = runs + 1
  /\ prevOk' = (mig.pc = "done")
  /\ server' = "starting"
  /\ UNCHANGED <<db, now, legacy0, svcVars, fault, twin>>

MigNext ==
  \/ StepCreateTodosTable
  \/ StepCreateMigrationsTable
  \/ StepAddUsernameColumn
  \/ StepMigrateToMultiList
  \/ StepCreateIndexes
  \/ Restart

SpecMig == MigInit /\ [][MigNext]_vars

(***************************************************************************)
(* SpecFault: the migration runner with one storage error.  The statement  *)
(* the run is about to execute fails and leaves the database as it was:    *)
(* the promise of db.run, db.get or db.all rejects and the run ends in the *)
(* catch blocks.  A crash between two statements leaves the same database. *)
(***************************************************************************)
\* the run is about to execute a statement
AtStatement(m) ==
  /\ m.pc \notin {"done", "failed"}
  /\ ~(m.pc = "copy" /\ m.i > Len(m.existing))
  /\ ~(m.pc = "ml_indexes" /\ m.i > Len(NewSchemaIndexes))

InRunMigrationsWithoutLedgerTable(pc) == pc \in AuPcs \cup MlPcs

\* the statements runMigrations covers with its catch block
InRunMigrations(pc) == pc \in {"createMigrationsTable"} \cup AuPcs \cup MlPcs

StorageErrorMessage == "SQLITE_IOERR"

StorageError ==
  /\ fault = ""
  /\ AtStatement(mig)
  /\ mig' = FailedRun(mig, InRunMigrations(mig.pc), StorageErrorMessage)
  /\ fault' = mig.pc
  /\ UNCHANGED <<db, now, runs, prevOk, legacy0, svcVars, server, twin>>

FaultNext ==
  \/ StepCreateTodosTable
  \/ StepCreateMigrationsTable
  \/ StepAddUsernameColumn
  \/ StepMigrateToMultiList
  \/ StepCreateIndexes
  \/ StorageError
  \/ Restart

SpecFault == MigInit /\ [][FaultNext]_vars

(***************************************************************************)
(* The services, one call at a time: every action is one whole call of a   *)
(* service method by caller p1, on the database initializeDatabase leaves  *)
(* on a new file or, for TodoService, also on the one an earlier release   *)
(* left (todos with the username column), where it takes its legacy        *)
(* branch.  An id argument ranges over the ids handed out so far and the   *)
(* next one.                                                               *)
(***************************************************************************)
NormalizedDb == InitializeDatabase(EmptyDb, NewRun, 0)
LegacyDb == LegacyDbV1({})

\* the normalized database once alice has signed in and added a list
SeededDb ==
  LET r1 == Run(NormalizedDb, "null", StartGetOrCreateUser(Alice), 0)
  IN Run(r1.d, "null", StartCreateList(r1.c.ret[1].id, Work), 0).d

InvalidUsernames == {Str(2, "", 0, 0), Str(0, "x", MaxUsernameLength + 1, 0)}

Least(a, b) == IF a < b THEN a ELSE b

UserIds == 1..Least(db.seq["users"] + 1, MaxUsers)
ListIds == 1..Least(db.seq["todo_lists"] + 1, MaxLists)
TodoIds == 1..Least(db.seq["todos"] + 1, MaxTodos)

WithinBounds(d) ==
  /\ d.seq["users"] <= MaxUsers
  /\ d.seq["todo_lists"] <= MaxLists
  /\ d.seq["todos"] <= MaxTodos

SvcInit(dbs) ==
  /\ db \in dbs
  /\ now = 0
  /\ mig = At(NewRun, "done")
  /\ runs = 1
  /\ prevOk = FALSE
  /\ legacy0 = {}
  /\ IdleServices
  /\ server = "listening"
  /\ fault = ""
  /\ twin = EmptyDb

\* the todo a resolved createTodo call created, with the username it was
\* created under
Created(c) ==
  IF c.op = "createTodo" /\ c.pc = "done" /\ c.err = <<>>
    THEN {<<c.ret[1].id, c.u>>}
    ELSE {}

\* caller p makes the call c0 and it runs to its end
Call(p, c0) ==
  \E r \in {Run(db, isNewSchema, [c0 EXCEPT !.pre = db], now)} :
    /\ WithinBounds(r.d)
    /\ db' = r.d
    /\ isNewSchema' = r.sch
    /\ call' = [call EXCEPT ![p] = r.c]
    /\ owner' = owner \cup Created(r.c)
    /\ UNCHANGED <<now, migVars>>

DoGetOrCreateUser(U) == \E u \in U : Call("p1", StartGetOrCreateUser(u))

DoCreateDefaultList == \E id \in UserIds : Call("p1", StartCreateDefaultList(id))

DoCreateList(N) == \E id \in UserIds, n \in N : Call("p1", StartCreateList(id, n))

DoUpdateListName(N) ==
  \E id \in ListIds, n \in N, uid \in {0} \cup UserIds :
    Call("p1", StartUpdateListName(id, n, uid))

DoDeleteList ==
  \E id \in ListIds, uid \in {0} \cup UserIds : Call("p1", StartDeleteList(id, uid))

DoGetListById ==
  \E id \in ListIds, uid \in {0} \cup UserIds : Call("p1", StartGetListById(id, uid))

DoGetAllTodos(U) == \E u \in U : Call("p1", StartGetAllTodos(isNewSchema, u))

DoCreateTodo(U, X, L) ==
  \E u \in U, x \in X, l \in L : Call("p1", StartCreateTodo(isNewSchema, u, x, l))

DoCreateTodoInList(X) ==
  \E l \in ListIds, x \in X : Call("p1", StartCreateTodoInList(isNewSchema, l, x))

DoUpdateTodo(U) ==
  \E u \in U, id \in TodoIds, f \in BOOLEAN :
    Call("p1", StartUpdateTodo(isNewSchema, u, id, f))

DoDeleteTodo(U) ==
  \E u \in U, id \in TodoIds : Call("p1", StartDeleteTodo(isNewSchema, u, id))

DoMoveTodoToList ==
  \E id \in TodoIds, l \in ListIds, uid \in UserIds :
    Call("p1", StartMoveTodoToList(isNewSchema, id, l, uid))

\* a second of the clock passes
Tick ==
  /\ now < MaxTime
  /\ now' = now + 1
  /\ UNCHANGED <<db, migVars, svcVars>>

(***************************************************************************)
(* SpecTodo: the username-keyed methods of TodoService, on either schema.  *)
(***************************************************************************)
TodoInit == SvcInit({NormalizedDb, SeededDb, LegacyDb})

\* TodoService takes the username as given: alice with blanks around it is
\* another user
TodoUsernames == {Alice, AlicePadded}

TodoNext ==
  \/ DoGetAllTodos(TodoUsernames)
  \/ DoCreateTodo(TodoUsernames, {MilkPadded}, {0} \cup ListIds)
  \/ DoUpdateTodo(TodoUsernames)
  \/ DoDeleteTodo(TodoUsernames)
  \/ Tick

SpecTodo == TodoInit /\ [][TodoNext]_vars

(***************************************************************************)
(* SpecText: createTodo with texts at the edges of its validation, on      *)
(* either schema.                                                          *)
(***************************************************************************)
BlankText == Str(2, "", 0, 1)
LongestText == Str(1, "a", MaxTodoTextLength, 1)
TooLongText == Str(0, "a", MaxTodoTextLength + 1, 0)

TextInputs == {MilkPadded, BlankText, LongestText, TooLongText}

TextNext ==
  \/ DoCreateTodo(TodoUsernames, TextInputs, {0} \cup ListIds)
  \/ Tick

SpecText == TodoInit /\ [][TextNext]_vars

(***************************************************************************)
(* SpecLists: users and their lists.                                       *)
(***************************************************************************)
ListsInit == SvcInit({NormalizedDb})

ListsNext ==
  \/ DoGetOrCreateUser({Alice, AlicePadded, Bob} \cup InvalidUsernames)
  \/ DoCreateDefaultList
  \/ DoGetAllTodos({Alice, AlicePadded})
  \/ DoCreateList({DefaultListName, WorkPadded, WorkLower})
  \/ DoUpdateListName({DefaultListName, WorkPadded})
  \/ DoDeleteList
  \/ Tick

SpecLists == ListsInit /\ [][ListsNext]_vars

(***************************************************************************)
(* SpecRef: lists and the todos in them.                                   *)
(***************************************************************************)
RefNext ==
  \/ DoGetOrCreateUser({Alice, Bob})
  \/ DoCreateList({Work})
  \/ DoDeleteList
  \/ DoCreateTodo({Alice, Bob}, {Milk}, {0})
  \/ DoCreateTodoInList({Milk})
  \/ DoMoveTodoToList
  \/ DoDeleteTodo({Alice, Bob})

SpecRef == ListsInit /\ [][RefNext]_vars

(***************************************************************************)
(* SpecMove: todos moved between lists, completed or not, and lists        *)
(* deleted under them.                                                     *)
(***************************************************************************)
MoveNext ==
  \/ DoGetOrCreateUser({Alice, Bob})
  \/ DoCreateList({Work})
  \/ DoDeleteList
  \/ DoCreateTodoInList({Milk})
  \/ DoUpdateTodo({Alice, Bob})
  \/ DoMoveTodoToList

SpecMove == ListsInit /\ [][MoveNext]_vars

(***************************************************************************)
(* SpecRace: two callers at once.  Every await of a method hands control   *)
(* back to the event loop, so between two statements of one call any       *)
(* number of statements of the other call may run; a statement itself is   *)
(* atomic.                                                                 *)
(***************************************************************************)
Free(p) == call[p].pc \in {"idle", "done"}

\* caller p makes the call c0: its synchronous validation runs
Begin(p, c0) ==
  /\ Free(p)
  /\ call' = [call EXCEPT ![p] = c0]
  /\ UNCHANGED <<db, now, migVars, isNewSchema, owner>>

BeginGetOrCreateUser(p) ==
  \E u \in {Alice, AlicePadded} : Begin(p, StartGetOrCreateUser(u))

BeginCreateDefaultList(p) == \E id \in UserIds : Begin(p, StartCreateDefaultList(id))

BeginGetAllTodos(p) == Begin(p, StartGetAllTodos(isNewSchema, Alice))

BeginCreateList(p) == \E id \in UserIds : Begin(p, StartCreateList(id, WorkPadded))

BeginUpdateListName(p) ==
  \E id \in ListIds, n \in {DefaultListName, Work} :
    Begin(p, StartUpdateListName(id, n, 0))

\* the next statement of caller p's call
StepCall(p) ==
  /\ ~Free(p)
  /\ \E r \in {Step(db, isNewSchema, call[p], now)} :
       /\ WithinBounds(r.d)
       /\ db' = r.d
       /\ isNewSchema' = r.sch
       /\ call' = [call EXCEPT ![p] = r.c]
       /\ owner' = owner \cup Created(r.c)
  /\ UNCHANGED <<now, migVars>>

RaceNext ==
  \E p \in Procs :
    \/ BeginGetOrCreateUser(p)
    \/ BeginCreateDefaultList(p)
    \/ BeginGetAllTodos(p)
    \/ BeginCreateList(p)
    \/ BeginUpdateListName(p)
    \/ StepCall(p)

SpecRace == ListsInit /\ [][RaceNext]_vars

(***************************************************************************)
(* SpecOwn: TodoListService called with and without a user id on the lists *)
(* of two users, one call at a time.                                       *)
(***************************************************************************)
OwnNext ==
  \/ DoGetOrCreateUser({Alice, Bob})
  \/ DoCreateList({Work})
  \/ DoUpdateListName({Work, WorkLower})
  \/ DoDeleteList
  \/ DoGetListById

SpecOwn == ListsInit /\ [][OwnNext]_vars

(***************************************************************************)
(* SpecDel: two callers whose createList and deleteList calls interleave   *)
(* statement by statement.                                                 *)
(***************************************************************************)
BeginDeleteList(p) == \E id \in ListIds : Begin(p, StartDeleteList(id, 0))

DelNext ==
  \E p \in Procs :
    \/ BeginGetOrCreateUser(p)
    \/ BeginCreateList(p)
    \/ BeginDeleteList(p)
    \/ StepCall(p)

SpecDel == ListsInit /\ [][DelNext]_vars

(***************************************************************************)
(* SpecEquiv: two TodoService instances given the same username-keyed      *)
(* calls, one call at a time, from empty stores: caller p1 uses the one on *)
(* the normalized database, caller p2 the one on the legacy database.      *)
(***************************************************************************)
EquivInit ==
  /\ db = NormalizedDb
  /\ twin = LegacyDb
  /\ now = 0
  /\ mig = At(NewRun, "done")
  /\ runs = 1
  /\ prevOk = FALSE
  /\ legacy0 = {}
  /\ IdleServices
  /\ server = "listening"
  /\ fault = ""

\* the call c(sch) made on both instances
Both(c1, c2) ==
  \E r1 \in {Run(db, isNewSchema, [c1 EXCEPT !.pre = db], now)},
     r2 \in {Run(twin, "null", [c2 EXCEPT !.pre = twin], now)} :
    /\ WithinBounds(r1.d)
    /\ WithinBounds(r2.d)
    /\ db' = r1.d
    /\ twin' = r2.d
    /\ isNewSchema' = r1.sch
    /\ call' = [call EXCEPT !["p1"] = r1.c, !["p2"] = r2.c]
    /\ UNCHANGED <<now, mig, runs, prevOk, legacy0, server, fault, owner>>

BothGetAllTodos ==
  \E u \in TodoUsernames :
    Both(StartGetAllTodos(isNewSchema, u), StartGetAllTodos("null", u))

BothCreateTodo ==
  \E u \in TodoUsernames, x \in {MilkPadded, Eggs} :
    Both(StartCreateTodo(isNewSchema, u, x, 0), StartCreateTodo("null", u, x, 0))

BothUpdateTodo ==
  \E u \in TodoUsernames, id \in TodoIds, f \in BOOLEAN :
    Both(StartUpdateTodo(isNewSchema, u, id, f), StartUpdateTodo("null", u, id, f))

BothDeleteTodo ==
  \E u \in TodoUsernames, id \in TodoIds :
    Both(StartDeleteTodo(isNewSchema, u, id), StartDeleteTodo("null", u, id))

EquivNext ==
  \/ BothGetAllTodos
  \/ BothCreateTodo
  \/ BothUpdateTodo
  \/ BothDeleteTodo
  \/ Tick

SpecEquiv == EquivInit /\ [][EquivNext]_vars

(***************************************************************************)
(* SpecKeep: todos created under a username without a list id, on the      *)
(* normalized database, among renames and deletions of lists and deletions *)
(* of todos; no todo is moved.  One call at a time.                        *)
(***************************************************************************)
KeepNext ==
  \/ DoCreateTodo({Alice}, {Milk}, {0})
  \/ DoGetAllTodos({Alice})
  \/ DoUpdateListName({Work})
  \/ DoDeleteTodo({Alice})
  \/ DoDeleteList

SpecKeep == ListsInit /\ [][KeepNext]_vars

(***************************************************************************)
(* SpecSame: the usernames the session middleware lets through, handed to  *)
(* UserService.getOrCreateUser and to the username-keyed methods of        *)
(* TodoService, on the normalized database, one call at a time.            *)
(***************************************************************************)
\* validateUsername: the username as it is, or null (no value)
ValidateUsername(username) ==
  IF StrLen(Trim(username)) = 0 THEN <<>>
  ELSE IF StrLen(username) < 1 \/ StrLen(username) > MaxUsernameLength THEN <<>>
  ELSE <<username>>

AcceptedUsernames ==
  {u \in {Alice, AlicePadded} \cup InvalidUsernames : ValidateUsername(u) # <<>>}

SameNext ==
  \/ DoGetOrCreateUser(AcceptedUsernames)
  \/ DoGetAllTodos(AcceptedUsernames)
  \/ DoCreateTodo(AcceptedUsernames, {Milk, Eggs}, {0})

SpecSame == ListsInit /\ [][SameNext]_vars

(***************************************************************************)
(* SpecReject: the writing methods of the three services, with valid and   *)
(* invalid names and texts, ids of rows that exist and of rows that do     *)
(* not, and users that own the row and users that do not.  One call at a   *)
(* time.                                                                   *)
(***************************************************************************)
RejectNext ==
  \/ DoGetOrCreateUser({Alice, Bob, Str(2, "", 0, 0)})
  \/ DoCreateList({Work, BlankText})
  \/ DoUpdateListName({Work})
  \/ DoDeleteList
  \/ DoCreateTodo({Alice}, {Milk, BlankText}, {0} \cup ListIds)
  \/ DoDeleteTodo({Alice, Bob})
  \/ DoMoveTodoToList

SpecReject == ListsInit /\ [][RejectNext]_vars

(***************************************************************************)
(* SpecCache: one TodoService instance serving two callers on a database   *)
(* of the release with the username column while initializeDatabase of     *)
(* another process runs on the same file.                                  *)
(***************************************************************************)
CacheInit ==
  /\ \E rows \in LegacyRowSets({Alice}) : Cardinality(rows) <= 1 /\ db = LegacyDbV1(rows)
  /\ now = 0
  /\ mig = NewRun
  /\ runs = 1
  /\ prevOk = FALSE
  /\ legacy0 = db.rows["todos"]
  /\ IdleServices
  /\ server = "listening"
  /\ fault = ""
  /\ twin = EmptyDb

CacheNext ==
  \/ StepCreateTodosTable
  \/ StepCreateMigrationsTable
  \/ StepAddUsernameColumn
  \/ StepMigrateToMultiList
  \/ StepCreateIndexes
  \/ \E p \in Procs : BeginGetAllTodos(p) \/ StepCall(p)

SpecCache == CacheInit /\ [][CacheNext]_vars

(***************************************************************************)
(* SpecStart: start of server.ts on any starting database.  It awaits      *)
(* initializeDatabase (connect, then the migration steps), then calls      *)
(* fastify.listen; its catch block closes the database and ends the        *)
(* process.  The routes hand requests to the services only while the       *)
(* server is listening.                                                    *)
(***************************************************************************)
InitializeDatabaseNotAwaited(m) == TRUE

\* await initializeDatabase() has returned
InitializeDatabaseResolved(m) == m.pc = "done"

\* DatabaseConnection.connect rejects: the file cannot be opened
ConnectFails ==
  /\ server = "starting"
  /\ mig.pc = "createTodosTable"
  /\ mig' = [mig EXCEPT !.pc = "failed", !.err = <<"Failed to connect to database">>]
  /\ UNCHANGED <<db, now, runs, prevOk, legacy0, svcVars, server, fault, twin>>

\* fastify.listen resolves, or rejects and start enters its catch block
StartListen ==
  /\ server = "starting"
  /\ InitializeDatabaseResolved(mig)
  /\ server' \in {"listening", "catch"}
  /\ UNCHANGED <<db, now, mig, runs, prevOk, legacy0, svcVars, fault, twin>>

\* initializeDatabase has thrown: start enters its catch block
StartCatch ==
  /\ server = "starting"
  /\ mig.pc = "failed"
  /\ server' = "catch"
  /\ UNCHANGED <<db, now, mig, runs, prevOk, legacy0, svcVars, fault, twin>>

\* closeDatabase, then process.exit(1); when close does not resolve the
\* process has no listener and no pending work and ends as well
StartExit ==
  /\ server = "catch"
  /\ server' = "exited"
  /\ UNCHANGED <<db, now, mig, runs, prevOk, legacy0, svcVars, fault, twin>>

\* GET /api/todos reaches todoService.getAllTodos
RouteGetTodos(p) ==
  /\ server = "listening"
  /\ BeginGetAllTodos(p)

StartNext ==
  \/ ConnectFails
  \/ StepCreateTodosTable
  \/ StepCreateMigrationsTable
  \/ StepAddUsernameColumn
  \/ StepMigrateToMultiList
  \/ StepCreateIndexes
  \/ StartListen
  \/ StartCatch
  \/ StartExit
  \/ \E p \in Procs : RouteGetTodos(p) \/ StepCall(p)

SpecStart ==
  /\ MigInit
  /\ [][StartNext]_vars
  /\ WF_vars(StartCatch)
  /\ WF_vars(StartExit)

(***************************************************************************)
(* Properties of the migration runner (SpecMig).                           *)
(***************************************************************************)

\* C1: a run of DatabaseMigrations.initializeDatabase that follows a run
\* which completed successfully changes nothing: no step of it alters the
\* tables, their columns, their rows, the ledger or the indexes.
C1_SecondRunChangesNothing == [][prevOk => db' = db]_vars

\* a second run has completed after a successful first one that migrated rows
C1_Witness == prevOk /\ mig.pc = "done" /\ runs = 2 /\ legacy0 # {}

Projection(r) == <<r.text, r.completed, r.created_at>>

SameBag(a, b) ==
  /\ Cardinality(a) = Cardinality(b)
  /\ \A r \in a \cup b :
       Cardinality({x \in a : Projection(x) = Projection(r)})
         = Cardinality({y \in b : Projection(y) = Projection(r)})

\* C2: once migrate_to_multi_list_schema is recorded for a database whose
\* legacy todos table held N >= 1 rows, the live todos table holds exactly N
\* rows, one per legacy row with its text, completed flag and created_at,
\* all in the one 'My Tasks' list of the one user 'default_user'.
C2_MigrationPreservesTodos ==
  (LedgerHas(db, MigrateToMultiList) /\ legacy0 # {}) =>
    /\ SameBag(db.rows["todos"], legacy0)
    /\ \E u \in db.users, l \in db.todo_lists :
         /\ db.users = {u}
         /\ u.username = DefaultUsername
         /\ db.todo_lists = {l}
         /\ l.name = DefaultListName
         /\ l.user_id = u.id
         /\ \A x \in db.rows["todos"] : x.list_id = l.id

\* two legacy rows, one of them completed, have been migrated
C2_Witness ==
  /\ LedgerHas(db, MigrateToMultiList)
  /\ runs = 1
  /\ Cardinality(legacy0) = 2
  /\ \E r \in legacy0 : r.completed

(***************************************************************************)
(* Properties of TodoService under one caller (SpecTodo)                   *)
(***************************************************************************)
AbsentTodoId == MaxTodos + 1

\* the same updateTodo or deleteTodo call, on a todo id that was never issued
OnAbsentTodo(c) ==
  IF c.op = "updateTodo"
    THEN StartUpdateTodo(isNewSchema, c.u, AbsentTodoId, c.flag)
    ELSE StartDeleteTodo(isNewSchema, c.u, AbsentTodoId)

NotFoundError(c) ==
  <<IF c.op = "updateTodo" THEN "Failed to update todo" ELSE "Failed to delete todo",
    TodoNotFound>>

\* the resolved call is an updateTodo or deleteTodo of a todo that exists and
\* was created under another username
ForeignTodoCall(c) ==
  /\ c.op \in {"updateTodo", "deleteTodo"}
  /\ c.pc = "done"
  /\ \E r \in c.pre.rows["todos"] : r.id = c.id
  /\ \E o \in owner : o[1] = c.id /\ o[2] # c.u

\* C3: updateTodo and deleteTodo under a username other than the one a todo
\* was created under fail with 'Todo with ID not found', as they do for an id
\* that does not exist, and leave the todo's row as it was, on either schema.
C3_OtherUsernameNotFound ==
  LET c == call["p1"]
  IN ForeignTodoCall(c) =>
       /\ c.err = NotFoundError(c)
       /\ c.err = Run(c.pre, isNewSchema, OnAbsentTodo(c), now).c.err
       /\ {r \in db.rows["todos"] : r.id = c.id}
            = {r \in c.pre.rows["todos"] : r.id = c.id}

C3_Witness ==
  LET c == call["p1"]
  IN /\ ForeignTodoCall(c)
     /\ c.op = "updateTodo"
     /\ isNewSchema = "true"
     /\ \E u \in c.pre.users : u.username = c.u

\* what getAllTodos(a) answers on database d
View(d, sch, a, t) ==
  LET r == Run(d, sch, StartGetAllTodos(sch, a), t) IN <<r.c.err, r.c.ret>>

\* every todo a resolved getAllTodos call returned was created under the
\* username it was called with
ReturnsOwnTodos ==
  LET c == call["p1"]
  IN (c.op = "getAllTodos" /\ c.pc = "done" /\ c.err = <<>>) =>
       \A i \in 1..Len(c.ret) : <<c.ret[i].id, c.u>> \in owner

\* a call under another username than a leaves what getAllTodos(a) answers
OthersLeaveView ==
  \A a \in TodoUsernames :
    call'["p1"].u # a =>
      View(db', isNewSchema', a, now') = View(db, isNewSchema, a, now)

\* C4: no username-keyed call made under username B changes what
\* getAllTodos(A) answers for another username A, and getAllTodos returns
\* only todos created under the username it is called with.
C4_UsernameIsolation == []ReturnsOwnTodos /\ [][OthersLeaveView]_vars

C4_Witness ==
  LET c == call["p1"]
  IN /\ c.op = "createTodo" /\ c.pc = "done" /\ c.err = <<>> /\ c.u = AlicePadded
     /\ isNewSchema = "true"
     /\ View(db, isNewSchema, Alice, now)[2] # <<>>

(***************************************************************************)
(* Properties of the users and their lists under one caller (SpecLists)    *)
(***************************************************************************)
ListsOf(d, userId) == {l \in d.todo_lists : l.user_id = userId}

\* C5: whenever no call is in progress, every user has at least one list.
C5_EveryUserHasAList == \A u \in db.users : ListsOf(db, u.id) # {}

C5_Witness ==
  LET c == call["p1"]
  IN /\ c.op = "deleteList" /\ c.pc = "done"
     /\ c.err = <<"Failed to delete list", LastList>>
     /\ Cardinality(db.users) = 2

\* the resolved call is a deleteList of an existing list, by its owner or
\* with no user id given, whose owner had n lists
DeleteOfOwnList(c, n) ==
  /\ c.op = "deleteList"
  /\ c.pc = "done"
  /\ \E l \in c.pre.todo_lists :
       /\ l.id = c.id
       /\ c.uid \in {0, l.user_id}
       /\ Cardinality(ListsOf(c.pre, l.user_id)) = n

\* C6: deleteList on a user's only list fails with 'Cannot delete the last
\* remaining list' and leaves the list; on either of a user's two lists it
\* succeeds and removes the list.
C6_LastListGuard ==
  LET c == call["p1"]
  IN /\ DeleteOfOwnList(c, 1) =>
          /\ c.err = <<"Failed to delete list", LastList>>
          /\ db.todo_lists = c.pre.todo_lists
     /\ DeleteOfOwnList(c, 2) =>
          /\ c.err = <<>>
          /\ db.todo_lists = {l \in c.pre.todo_lists : l.id # c.id}

C6_Witness ==
  LET c == call["p1"]
  IN /\ DeleteOfOwnList(c, 2)
     /\ \E l \in c.pre.todo_lists : l.id = c.id /\ l.name = DefaultListName
     /\ Cardinality(db.users) = 2

\* C10: a resolved getOrCreateUser call returns the users row of the trimmed
\* username; when that row existed before the call it is the row returned,
\* with its id and created_at, and the call inserts no user and no list.
C10_GetOrCreateUserIdempotent ==
  LET c == call["p1"]
  IN (c.op = "getOrCreateUser" /\ c.pc = "done" /\ c.err = <<>>) =>
       /\ c.ret[1] \in db.users
       /\ c.ret[1].username = Trim(c.u)
       /\ \A r \in c.pre.users :
            r.username = Trim(c.u) =>
              /\ c.ret[1] = r
              /\ db.users = c.pre.users
              /\ db.todo_lists = c.pre.todo_lists

C10_Witness ==
  LET c == call["p1"]
  IN /\ c.op = "getOrCreateUser" /\ c.pc = "done" /\ c.err = <<>>
     /\ c.u = AlicePadded
     /\ \E r \in c.pre.users : r.username = Alice /\ r.created_at < now

(***************************************************************************)
(* Properties of the lists and their todos under one caller (SpecRef)      *)
(***************************************************************************)
\* C7: after deleteList(listId) has succeeded no todo has list_id = listId.
C7_NoTodoOfDeletedList ==
  LET c == call["p1"]
  IN (c.op = "deleteList" /\ c.pc = "done" /\ c.err = <<>>) =>
       \A r \in db.rows["todos"] : r.list_id # c.id

\* C8: every list's user_id is the id of a user and every todo's list_id is
\* the id of a list.
C8_ReferentialIntegrity ==
  /\ \A l \in db.todo_lists : \E u \in db.users : u.id = l.user_id
  /\ \A r \in db.rows["todos"] : \E l \in db.todo_lists : l.id = r.list_id

(***************************************************************************)
(* Properties under two callers (SpecRace)                                 *)
(***************************************************************************)
\* C9: no two users have the same username and no two lists of one user the
\* same name, whatever the interleaving of the calls' statements.
C9_Uniqueness ==
  /\ \A u, v \in db.users : u.username = v.username => u = v
  /\ \A l, m \in db.todo_lists : (l.name = m.name /\ l.user_id = m.user_id) => l = m

\* both callers passed their existence check and one of them lost the insert
C9_Witness ==
  /\ call["p1"].op = "getOrCreateUser" /\ call["p1"].pc = "done" /\ call["p1"].err = <<>>
  /\ call["p2"].op = "getOrCreateUser" /\ call["p2"].pc = "gocu_requery"
  /\ IsUnique(call["p2"].e)

\* the call has just returned a user it found no row for at its first SELECT:
\* it inserted the row itself (c.x) or lost the insert and read it again (c.e)
ReturnedNewUser(c) ==
  /\ c.op = "getOrCreateUser" /\ c.pc = "done" /\ c.err = <<>>
  /\ (c.x # 0 \/ c.e # <<>>)

DefaultListsOf(d, userId) ==
  {l \in d.todo_lists : l.user_id = userId /\ l.name = DefaultListName}

\* C11: at the moment a getOrCreateUser call returns a user whose username had
\* no row before the call, that user has exactly one list named 'My Tasks'.
C11_NewUserHasDefaultList ==
  [][\A p \in Procs :
       (call[p].pc # "done" /\ ReturnedNewUser(call'[p])) =>
         Cardinality(DefaultListsOf(db', call'[p].ret[1].id)) = 1]_vars

ReturnedFromGetOrCreateUser(c) == c.op = "getOrCreateUser" /\ c.pc = "done"

\* C12: however the statements of two getOrCreateUser calls for one username
\* interleave, neither call fails, both return the same user id, and one
\* users row has that username.
C12_CreationRaceResolved ==
  \A p \in Procs :
    ReturnedFromGetOrCreateUser(call[p]) =>
      /\ call[p].err = <<>>
      /\ call[p].ret[1].username = Trim(call[p].u)
      /\ Cardinality({u \in db.users : u.username = Trim(call[p].u)}) = 1
      /\ \A q \in Procs :
           (ReturnedFromGetOrCreateUser(call[q]) /\ Trim(call[q].u) = Trim(call[p].u)) =>
             (call[q].err = <<>> /\ call[q].ret[1].id = call[p].ret[1].id)

\* one call inserted the row, the other lost the insert, and both have returned
C12_Witness ==
  /\ ReturnedFromGetOrCreateUser(call["p1"]) /\ call["p1"].x # 0
  /\ ReturnedFromGetOrCreateUser(call["p2"]) /\ IsUnique(call["p2"].e)
  /\ call["p2"].x = 0

(***************************************************************************)
(* Properties of the list names (SpecLists)                                *)
(***************************************************************************)
\* the resolved call is a createList for an existing user
CreateListOfUser(c) ==
  /\ c.op = "createList" /\ c.pc = "done"
  /\ \E u \in c.pre.users : u.id = c.uid

HasListNamed(d, userId, name) ==
  \E l \in d.todo_lists : l.user_id = userId /\ l.name = name

\* C13: createList fails with 'A list named ... already exists for this user'
\* and inserts nothing when the user has a list of exactly the trimmed name;
\* otherwise it succeeds, whoever else has a list of that name.
C13_DuplicateListName ==
  LET c == call["p1"]
  IN CreateListOfUser(c) =>
       IF HasListNamed(c.pre, c.uid, Trim(c.s))
         THEN /\ c.err # <<>>
              /\ c.err[Len(c.err)] = AlreadyExists
              /\ db = c.pre
         ELSE /\ c.err = <<>>
              /\ c.ret[1].name = Trim(c.s)
              /\ c.ret[1].user_id = c.uid
              /\ db.todo_lists = c.pre.todo_lists \cup {c.ret[1]}
              /\ c.ret[1] \notin c.pre.todo_lists

\* a padded name is refused for a user who has the list, while another user
\* has a list of the same name too
C13_Witness ==
  LET c == call["p1"]
  IN /\ CreateListOfUser(c)
     /\ c.s = WorkPadded
     /\ c.err # <<>>
     /\ \E u \in db.users : u.id # c.uid /\ HasListNamed(db, u.id, Work)

\* the resolved call is an updateListName of list l, by its owner or with no
\* user id given
UpdateOfOwnList(c, l) ==
  /\ c.op = "updateListName" /\ c.pc = "done"
  /\ l \in c.pre.todo_lists
  /\ l.id = c.id
  /\ c.uid \in {0, l.user_id}

\* C14: updateListName fails and changes nothing when another list of the
\* owner has the trimmed name; it succeeds, the stored name staying what it
\* was, when the trimmed name is the list's own; otherwise it stores the
\* trimmed name.
C14_RenameConflict ==
  LET c == call["p1"]
  IN \A l \in c.pre.todo_lists :
       UpdateOfOwnList(c, l) =>
         IF \E m \in c.pre.todo_lists :
              m.id # l.id /\ m.user_id = l.user_id /\ m.name = Trim(c.s)
           THEN /\ c.err # <<>>
                /\ c.err[Len(c.err)] = AlreadyExists
                /\ db = c.pre
         ELSE IF l.name = Trim(c.s)
           THEN /\ c.err = <<>>
                /\ c.ret = <<l>>
                /\ db = c.pre
         ELSE /\ c.err = <<>>
              /\ c.ret = <<[l EXCEPT !.name = Trim(c.s)]>>
              /\ db.todo_lists = (c.pre.todo_lists \ {l}) \cup {c.ret[1]}

C14_Witness ==
  LET c == call["p1"]
  IN /\ c.s = WorkPadded
     /\ c.err = <<>>
     /\ \E l \in c.pre.todo_lists : UpdateOfOwnList(c, l) /\ l.name = Work
     /\ Cardinality(db.users) = 2

(***************************************************************************)
(* Properties of moveTodoToList (SpecMove)                                 *)
(***************************************************************************)
Moved(c) == c.op = "moveTodoToList" /\ c.pc = "done"

\* C15: a successful moveTodoToList is a move between two lists of userId and
\* changes the list_id of that one todo to the target list, nothing else.
C15_MoveChangesOnlyListId ==
  LET c == call["p1"]
  IN (Moved(c) /\ c.err = <<>>) =>
       \E r \in c.pre.rows["todos"] :
         /\ r.id = c.id
         /\ InListOfUser(c.pre, r.list_id, c.uid)
         /\ InListOfUser(c.pre, c.id2, c.uid)
         /\ db = [c.pre EXCEPT !.rows["todos"] =
                    (@ \ {r}) \cup {[r EXCEPT !.list_id = c.id2]}]
         /\ c.ret = <<Todo([r EXCEPT !.list_id = c.id2])>>

\* a completed todo was moved to another list while a second todo existed
C15_Witness ==
  LET c == call["p1"]
  IN /\ Moved(c) /\ c.err = <<>>
     /\ \E r \in c.pre.rows["todos"] : r.id = c.id /\ r.list_id # c.id2 /\ r.completed
     /\ Cardinality(db.rows["todos"]) = 2

\* the todo and the target list both exist and are in lists of the user
MovableBy(d, todoId, targetListId, userId) ==
  /\ InListOfUser(d, targetListId, userId)
  /\ \E r \in d.rows["todos"] : r.id = todoId /\ InListOfUser(d, r.list_id, userId)

MoveNotFound ==
  {<<"Failed to move todo", "Target list not found or does not belong to user">>,
   <<"Failed to move todo", "Todo not found or does not belong to user">>}

\* C16: moveTodoToList fails with a not-found error and changes nothing when
\* the target list or the todo's current list is not a list of userId, or the
\* todo or the target list does not exist.
C16_MoveNotFound ==
  LET c == call["p1"]
  IN (Moved(c) /\ c.id > 0 /\ c.id2 > 0 /\ c.uid > 0
        /\ ~MovableBy(c.pre, c.id, c.id2, c.uid)) =>
       /\ c.err \in MoveNotFound
       /\ db = c.pre

\* the user's own todo is refused a move to a list another user owns
C16_Witness ==
  LET c == call["p1"]
  IN /\ Moved(c) /\ c.err # <<>>
     /\ \E r \in c.pre.rows["todos"] : r.id = c.id /\ InListOfUser(c.pre, r.list_id, c.uid)
     /\ \E l \in c.pre.todo_lists : l.id = c.id2 /\ l.user_id # c.uid

(***************************************************************************)
(* Properties of createTodo's validation (SpecText)                        *)
(***************************************************************************)
TextErrors == {<<EmptyText>>, <<"Todo text cannot exceed 500 characters">>}

ValidText(text) == StrLen(Trim(text)) \in 1..MaxTodoTextLength

\* C17: createTodo refuses a text that is empty or longer than 500 characters
\* once trimmed, inserting nothing; it accepts every other text, 500
\* characters included, and stores it trimmed with completed = false.
C17_TextValidation ==
  LET c == call["p1"]
  IN (c.op = "createTodo" /\ c.pc = "done") =>
       /\ ~ValidText(c.s) => (c.err \in TextErrors /\ db = c.pre)
       /\ ValidText(c.s) => c.err \notin TextErrors
       /\ (ValidText(c.s) /\ c.id2 = 0) => c.err = <<>>
       /\ c.err = <<>> =>
            /\ c.ret[1].text = Trim(c.s)
            /\ ~c.ret[1].completed
            /\ \E r \in db.rows["todos"] \ c.pre.rows["todos"] :
                 /\ db.rows["todos"] = c.pre.rows["todos"] \cup {r}
                 /\ r.id = c.ret[1].id
                 /\ r.text = Trim(c.s)
                 /\ ~r.completed

\* a text of 500 characters with blanks around it was stored
C17_Witness ==
  LET c == call["p1"]
  IN /\ c.op = "createTodo" /\ c.pc = "done" /\ c.err = <<>>
     /\ c.s = LongestText
     /\ StrLen(c.ret[1].text) = MaxTodoTextLength

C19_StartupOrder ==
  /\ [](server = "listening" => mig.pc = "done")
  /\ [][call' # call => mig.pc = "done"]_vars
  /\ [](mig.pc = "failed" => [](server # "listening"))
  /\ (mig.pc = "failed" ~> server = "exited")

C19_Witness == mig.pc = "failed" /\ server = "exited"

(***************************************************************************)
(* Properties of the ownership test of TodoListService (SpecOwn).          *)
(***************************************************************************)

\* a completed call with a user id on list l, which another user owns
OfOtherUser(c, l) ==
  /\ c.pc = "done"
  /\ l \in c.pre.todo_lists
  /\ l.id = c.id
  /\ c.uid # 0
  /\ l.user_id # c.uid

\* a completed call with a user id on a list id no list has
OfMissingList(c) ==
  /\ c.pc = "done"
  /\ c.id > 0
  /\ c.uid # 0
  /\ ~\E l \in c.pre.todo_lists : l.id = c.id

\* what a call with a user id answers for a list the user cannot see
AnswersNotFound(c) ==
  /\ c.op = "updateListName" /\ ListNameError(c.s) = <<>> =>
       c.err = <<"Failed to update list name", ListNotFound>>
  /\ c.op = "deleteList" => c.err = <<"Failed to delete list", ListNotFound>>
  /\ c.op = "getListById" => c.err = <<>> /\ c.ret = <<>>

\* C20: with a user id given, updateListName and deleteList on a list of
\* another user fail with 'List with ID <id> not found', exactly as they do
\* for an id no list has, and change nothing; getListById returns null.
C20_OwnershipWithUserId ==
  LET c == call["p1"]
  IN /\ \A l \in c.pre.todo_lists :
          OfOtherUser(c, l) => AnswersNotFound(c) /\ db = c.pre
     /\ OfMissingList(c) => AnswersNotFound(c) /\ db = c.pre

C20_Witness ==
  LET c == call["p1"]
  IN \E l \in c.pre.todo_lists :
       /\ OfOtherUser(c, l)
       /\ c.op = "deleteList"
       /\ Cardinality(ListsOf(c.pre, l.user_id)) = 2

(***************************************************************************)
(* Properties of the migration runner under a storage error (SpecFault).   *)
(***************************************************************************)

\* the run after the one a storage error interrupted inside
\* migrate_to_multi_list_schema has ended
RerunEnded ==
  /\ runs = 2
  /\ fault \in MlPcs
  /\ mig.pc \in {"done", "failed"}

\* C21: the run of initializeDatabase that follows a run interrupted inside
\* migrate_to_multi_list_schema, before its ledger row, succeeds: the ledger
\* entry is recorded and the live todos table holds exactly one copy of
\* each legacy todo, in the one 'My Tasks' list of the one 'default_user'.
C21_RerunConverges ==
  RerunEnded =>
    /\ mig.pc = "done"
    /\ LedgerHas(db, MigrateToMultiList)
    /\ legacy0 # {} =>
         /\ SameBag(db.rows["todos"], legacy0)
         /\ \E u \in db.users, l \in db.todo_lists :
              /\ db.users = {u}
              /\ u.username = DefaultUsername
              /\ db.todo_lists = {l}
              /\ l.name = DefaultListName
              /\ l.user_id = u.id
              /\ \A x \in db.rows["todos"] : x.list_id = l.id

(***************************************************************************)
(* Properties of concurrent deleteList calls (SpecDel).                    *)
(***************************************************************************)

\* C22: whatever the interleaving of deleteList calls, no step leaves a
\* user who had a list without any list.
C22_NeverZeroLists ==
  [][\A u \in db.users :
       ListsOf(db, u.id) # {} => ListsOf(db', u.id) # {}]_vars

(***************************************************************************)
(* Properties of the two schemas of TodoService (SpecEquiv).               *)
(***************************************************************************)

\* what a caller sees of a call: the rejection, or the todos resolved with
\* (id, text, completed, createdAt) in their order
Observed(c) == [op |-> c.op, err |-> c.err, ret |-> c.ret]

\* C23: after any sequence of username-keyed createTodo, updateTodo,
\* deleteTodo and getAllTodos calls from empty stores, the instance on the
\* normalized schema has answered the last call as the instance on the
\* legacy schema has: the same rejection, or the same todos in the same
\* order.
C23_SchemasEquivalent == Observed(call["p1"]) = Observed(call["p2"])

C23_Witness ==
  /\ call["p1"].op = "getAllTodos"
  /\ Len(call["p1"].ret) = 2
  /\ call["p1"].ret[1].id = 2
  /\ call["p1"].ret[2].completed
  /\ call["p2"].pre.rows["todos"] # {}

(***************************************************************************)
(* Properties of the indexes of the normalized schema (SpecMig).           *)
(***************************************************************************)

\* the indexes createNewSchemaIndexes creates on todos: on list_id, on
\* completed and on created_at
LiveTodosIndexes == {"idx_todos_list_id", "idx_todos_completed", "idx_todos_created_at"}

\* C24: once a run has completed with migrate_to_multi_list_schema
\* recorded, the live todos table carries the indexes on list_id, on
\* completed and on created_at, whatever the starting database was.
C24_LiveTodosIndexed ==
  (mig.pc = "done" /\ LedgerHas(db, MigrateToMultiList)) =>
    \A i \in LiveTodosIndexes : db.indexes[i] = "todos"

(***************************************************************************)
(* Properties of the migrations ledger (SpecFault).                        *)
(***************************************************************************)

\* the positions of a migration's statements
StatementsOf(name) == IF name = AddUsernameColumn THEN AuPcs ELSE MlPcs

\* what the statements of a migration have brought about when they have all
\* completed
Applied(d, name) ==
  IF name = AddUsernameColumn THEN "username" \in d.cols["todos"]
  ELSE /\ d.cols["todos"] = NewTodosCols
       /\ HasTable(d, "users")
       /\ HasTable(d, "todo_lists")
       /\ HasTable(d, "todos_old")
       /\ ~HasTable(d, "todos_new")
       /\ \A o \in d.rows["todos_old"] :
            \E r \in d.rows["todos"] : Projection(r) = Projection(o)
       /\ \A ix \in {NewSchemaIndexes[k][1] : k \in 1..Len(NewSchemaIndexes)} :
            d.indexes[ix] # ""

\* the step records this name in the ledger
Records(name) == name \in db'.migrations \ db.migrations

\* C25: in every run, a statement of a migration changes the database only
\* when the migration's name is not in the ledger; the name is inserted by
\* the migration's last statement, when all the others have completed; no
\* name is removed or inserted twice; and a run that has passed
\* add_username_column has its name in the ledger, also when the column
\* was there already.
C25_LedgerDiscipline ==
  [][/\ db.migrations \subseteq db'.migrations
     /\ \A name \in {AddUsernameColumn, MigrateToMultiList} :
          /\ (mig.pc \in StatementsOf(name) /\ db' # db) => name \notin db.migrations
          /\ Records(name) =>
               /\ mig.pc = (IF name = AddUsernameColumn THEN "au_record" ELSE "ml_record")
               /\ Applied(db, name)
               /\ db'.migrations = db.migrations \cup {name}
          /\ (mig.pc \in StatementsOf(name) /\ mig'.pc = "failed") =>
               mig'.err[Len(mig'.err)] # "UNIQUE constraint failed"
     /\ (mig.pc = "au_pragma" /\ mig'.pc \notin {"au_pragma", "failed"}) =>
          (mig'.pc = IF "username" \in db.cols["todos"] THEN "au_record" ELSE "au_alter")
     /\ (mig.pc \in AuPcs /\ mig'.pc \in MlPcs) => LedgerHas(db', AddUsernameColumn)]_vars

\* the run after one interrupted at the ledger insert of add_username_column
\* found the column there and recorded the name
C25_Witness ==
  /\ fault = "au_record"
  /\ runs = 2
  /\ mig.pc \in MlPcs
  /\ LedgerHas(db, AddUsernameColumn)

(***************************************************************************)
(* Properties of a storage error in initializeDatabase (SpecFault).        *)
(***************************************************************************)

\* the run has ended in the storage error
AbortedByStorageError ==
  /\ mig.pc = "failed"
  /\ mig.err[Len(mig.err)] = StorageErrorMessage

\* C26: a storage error at a statement of initializeDatabase ends the run:
\* the rejection reads 'Failed to initialize database: ' followed, when the
\* statement belongs to createMigrationsTable or to one of the two
\* migrations, by 'Migration failed: ', and then the error; the name of
\* the migration the statement belongs to is not in the ledger; and no
\* step of the ended run changes the database.
C26_StorageErrorAborts ==
  /\ [](AbortedByStorageError =>
          /\ mig.err =
               IF fault \in {"createTodosTable", "createIndexes"}
                 THEN <<"Failed to initialize database", StorageErrorMessage>>
                 ELSE <<"Failed to initialize database", "Migration failed",
                        StorageErrorMessage>>
          /\ fault \in AuPcs \ {"au_check"} => ~LedgerHas(db, AddUsernameColumn)
          /\ fault \in MlPcs \ {"ml_check"} => ~LedgerHas(db, MigrateToMultiList))
  /\ [][mig.pc = "failed" => db' = db /\ mig'.pc \in {"failed", NewRun.pc}]_vars

C26_Witness ==
  /\ AbortedByStorageError
  /\ fault = "copy"
  /\ db.rows["todos_new"] # {}

(***************************************************************************)
(* Properties of the default list of a username (SpecKeep).                *)
(***************************************************************************)

\* todo id, created by createTodo under username u, was in database d, in
\* a list that was there
StillThere(d, id) ==
  \E r \in d.rows["todos"] :
    /\ r.id = id
    /\ \E l \in d.todo_lists : l.id = r.list_id

\* C27: getAllTodos(username) returns every todo that createTodo created
\* under that username without a list id and that has neither been deleted
\* nor lost its list, whatever the calls in between, renames of the user's
\* lists included.
C27_CreatedTodoStaysVisible ==
  LET c == call["p1"]
  IN (c.op = "getAllTodos" /\ c.pc = "done" /\ c.err = <<>>) =>
       \A o \in owner :
         (o[2] = c.u /\ StillThere(c.pre, o[1])) =>
           \E k \in 1..Len(c.ret) : c.ret[k].id = o[1]

(***************************************************************************)
(* Properties of the user a username resolves to (SpecSame).               *)
(***************************************************************************)

\* C28: when getOrCreateUser(username) returns a user, every todo that
\* createTodo created under the same username string lies in a list of
\* that user.
C28_SameUserRow ==
  LET c == call["p1"]
  IN (c.op = "getOrCreateUser" /\ c.pc = "done" /\ c.err = <<>>) =>
       \A o \in owner :
         o[2] = c.u =>
           \A r \in db.rows["todos"] :
             r.id = o[1] =>
               \E l \in db.todo_lists : l.id = r.list_id /\ l.user_id = c.ret[1].id

(***************************************************************************)
(* Properties of rejected calls (SpecReject).                              *)
(***************************************************************************)

\* the call of caller p1 has ended in a rejection
Rejected(c) == c.pc = "done" /\ c.err # <<>>

UsersNamed(d, username) == {u \in d.users : u.username = username}

\* the lists called My Tasks of the users us in d
MyTasksOf(d, us) ==
  {l \in d.todo_lists : l.name = DefaultListName /\ l.user_id \in {u.id : u \in us}}

\* C30: on the normalized schema getAllTodos(username) leaves the todos as
\* they were and removes no user and no list; it adds one users row of
\* that username and one My Tasks list of that row when the username had no
\* users row, one My Tasks list of the user when the user had none of that
\* name, and nothing when the user had one.
C30_GetAllTodosWrites ==
  LET c == call["p1"]
      pre == c.pre
      us == UsersNamed(pre, c.u)
      newUsers == db.users \ pre.users
      newLists == db.todo_lists \ pre.todo_lists
  IN (c.op = "getAllTodos" /\ c.pc = "done") =>
       /\ c.err = <<>>
       /\ db.rows["todos"] = pre.rows["todos"]
       /\ pre.users \subseteq db.users
       /\ pre.todo_lists \subseteq db.todo_lists
       /\ IF us = {}
            THEN /\ Cardinality(newUsers) = 1
                 /\ \A u \in newUsers : u.username = c.u
                 /\ Cardinality(newLists) = 1
                 /\ newLists = MyTasksOf(db, newUsers)
          ELSE IF MyTasksOf(pre, us) = {}
            THEN /\ newUsers = {}
                 /\ Cardinality(newLists) = 1
                 /\ newLists = MyTasksOf(db, us)
          ELSE newUsers = {} /\ newLists = {}

\* getAllTodos of a user whose only list had another name has ended
C30_Witness ==
  LET c == call["p1"]
      us == UsersNamed(c.pre, c.u)
  IN /\ c.op = "getAllTodos"
     /\ c.pc = "done"
     /\ us # {}
     /\ MyTasksOf(c.pre, us) = {}
     /\ \E l \in c.pre.todo_lists : l.user_id \in {u.id : u \in us}
     /\ db.todo_lists # c.pre.todo_lists

====
